---------------------------- MODULE Spec2Model ----------------------------
(***************************************************************************)
(* Model of the prompt evaluation pipeline of cognee_framework/evaluation: *)
(* PromptEvaluator.evaluate_prompt (base_evaluator.py) with its four       *)
(* metric evaluators and the summary aggregator, and of the comparator     *)
(* (comparative_evaluator.py): the pairwise comparison                     *)
(* PromptComparator._compare_two_prompts and the ranking of                *)
(* PromptComparator._perform_statistical_comparison with the               *)
(* recommendation made from it; and of the MCP integrator                  *)
(* (mcp_integration/utils.py), process_evaluator_with_mcp.                 *)
(*                                                                         *)
(* Texts are sequences of one-character strings, so that strip() and       *)
(* lower() are computed.  Python floats are exact rationals <<num, den>>   *)
(* with den > 0.  A Python dict whose keys vary is a record whose DOMAIN   *)
(* varies; the results dict, whose iteration order matters, is a sequence  *)
(* of [method, result] entries in insertion order.                         *)
(***************************************************************************)
EXTENDS Integers, Sequences, FiniteSets, TLC

(***************************************************************************)
(* Bounds of the model.                                                    *)
(***************************************************************************)
\* Largest number of test cases in the test-case file.
MaxCases == 2

\* Largest number of prompts in one call of compare_prompts.
MaxPrompts == 2

\* Largest number of search queries an evaluator has prepared.
MaxQueries == 2

(***************************************************************************)
(* Rational arithmetic for the float computations of the evaluators.       *)
(***************************************************************************)
Abs(n) == IF n < 0 THEN -n ELSE n

RECURSIVE Gcd(_, _)
Gcd(a, b) == IF b = 0 THEN a ELSE Gcd(b, a % b)

\* The rational n/d in lowest terms with a positive denominator.
Rat(n, d) ==
    LET g == Gcd(Abs(n), Abs(d))
        s == IF d < 0 THEN -1 ELSE 1
    IN  <<(s * n) \div g, (s * d) \div g>>

RatAdd(a, b) == Rat(a[1] * b[2] + b[1] * a[2], a[2] * b[2])

RatMul(a, b) == Rat(a[1] * b[1], a[2] * b[2])

\* a / b, for b # 0
RatDiv(a, b) == Rat(a[1] * b[2], a[2] * b[1])

RatGeq(a, b) == a[1] * b[2] >= b[1] * a[2]

RatGt(a, b) == a[1] * b[2] > b[1] * a[2]

RatLt(a, b) == a[1] * b[2] < b[1] * a[2]

RatEq(a, b) == a[1] * b[2] = b[1] * a[2]

RECURSIVE RatSum(_)
RatSum(s) == IF s = <<>> THEN <<0, 1>> ELSE RatAdd(Head(s), RatSum(Tail(s)))

\* np.mean of a non-empty list.
RatMean(s) == LET t == RatSum(s) IN Rat(t[1], t[2] * Len(s))

RECURSIVE SumSeq(_)
SumSeq(s) == IF s = <<>> THEN 0 ELSE Head(s) + SumSeq(Tail(s))

(***************************************************************************)
(* str.strip() and str.lower().                                            *)
(***************************************************************************)
UpperLetters ==
    <<"A", "B", "C", "D", "E", "F", "G", "H", "I", "J", "K", "L", "M",
      "N", "O", "P", "Q", "R", "S", "T", "U", "V", "W", "X", "Y", "Z">>

LowerLetters ==
    <<"a", "b", "c", "d", "e", "f", "g", "h", "i", "j", "k", "l", "m",
      "n", "o", "p", "q", "r", "s", "t", "u", "v", "w", "x", "y", "z">>

Whitespace == {" ", "\t", "\n"}

LowerChar(c) ==
    IF \E i \in 1..Len(UpperLetters) : UpperLetters[i] = c
    THEN LowerLetters[CHOOSE i \in 1..Len(UpperLetters) : UpperLetters[i] = c]
    ELSE c

StrLower(s) == [i \in 1..Len(s) |-> LowerChar(s[i])]

RECURSIVE LStrip(_)
LStrip(s) ==
    IF s # <<>> /\ Head(s) \in Whitespace THEN LStrip(Tail(s)) ELSE s

RECURSIVE RStrip(_)
RStrip(s) ==
    IF s # <<>> /\ s[Len(s)] \in Whitespace
    THEN RStrip(SubSeq(s, 1, Len(s) - 1))
    ELSE s

StrStrip(s) == RStrip(LStrip(s))

(***************************************************************************)
(* The texts of the model.                                                 *)
(***************************************************************************)
TxtParis == <<"P", "a", "r", "i", "s">>
TxtParisPadded == <<" ", "P", "a", "r", "i", "s", "\n">>
TxtLondon == <<"L", "o", "n", "d", "o", "n">>
TxtparisLower == <<"p", "a", "r", "i", "s">>

\* What the completion service can answer.
Outputs == {TxtParisPadded, TxtLondon}

\* case.get("expected"): None is <<>>, a string s is <<s>>.
None == <<>>
Some(s) == <<s>>
Expecteds == {None, Some(<<>>), Some(TxtparisLower)}

\* The output stored for a failed completion, f"ERROR: {str(e)}".
ErrorOutput == <<"E", "R", "R", "O", "R", ":">>

\* text.strip().lower() of every text of the model, computed once.
Texts == Outputs \cup {TxtParis, TxtparisLower, <<>>, ErrorOutput}

StripLower == [t \in Texts |-> StrLower(StrStrip(t))]

\* The "input" of the i-th test case of the file.
InputOf(i) == <<"q", i>>


(***************************************************************************)
(* Configuration (PromptEvaluator._load_config).                           *)
(***************************************************************************)
DefaultMetrics ==
    [accuracy_threshold |-> <<85, 100>>,
     consistency_threshold |-> <<8, 10>>,
     quality_threshold |-> <<4, 1>>]

\* A user file that sets all three thresholds.
UserMetrics ==
    [accuracy_threshold |-> <<1, 2>>,
     consistency_threshold |-> <<96, 100>>,
     quality_threshold |-> <<3, 1>>]

DefaultMethods == <<"exact_match", "consistency", "quality">>

\* default_config, its keys that the evaluation reads.
DefaultConfig ==
    [evaluation_methods |-> DefaultMethods, metrics |-> DefaultMetrics]

\* No configuration file: default_config is returned as it is.
NoConfigFile == [k \in {} |-> 0]

\* default_config.update(user_config): every top-level key of the user
\* file replaces the value of that key whole, a nested dict included.
load_config(user_config) ==
    [k \in DOMAIN DefaultConfig \cup DOMAIN user_config |->
        IF k \in DOMAIN user_config THEN user_config[k] ELSE DefaultConfig[k]]

\* User files that list the methods in another order, leave some out, or
\* set all three thresholds.
ConfigFiles ==
    {NoConfigFile,
     [evaluation_methods |-> <<"rouge", "quality", "consistency", "exact_match">>],
     [evaluation_methods |-> <<"rouge", "exact_match">>],
     [evaluation_methods |-> <<"consistency", "exact_match">>,
      metrics |-> UserMetrics]}

\* The configurations these files give.
Configs == {load_config(file) : file \in ConfigFiles}

\* A user file that sets one threshold only.
PartialMetricsFile ==
    [evaluation_methods |-> <<"consistency", "exact_match">>,
     metrics |-> [accuracy_threshold |-> <<1, 2>>]]

\* A user file that leaves exact_match out.
NoExactMatchFile == [evaluation_methods |-> <<"consistency", "rouge">>]

\* The user files an evaluation is run with.
EvalConfigFiles == ConfigFiles \cup {PartialMetricsFile, NoExactMatchFile}

\* self.config["metrics"][key] raises KeyError.
ThresholdMissing(cfg, key) == key \notin DOMAIN cfg.metrics

\* x in list
InList(x, list) == \E i \in 1..Len(list) : list[i] = x

(***************************************************************************)
(* Values of meets_threshold.  A comparison of Python floats is a bool; a  *)
(* comparison of a numpy scalar (np.mean) is a numpy.bool_, which is       *)
(* truthy or falsy like a bool but which json.dump cannot encode.          *)
(***************************************************************************)
PyBool(b) == [v |-> b, type |-> "bool"]

NumpyBool(b) == [v |-> b, type |-> "numpy.bool_"]

(***************************************************************************)
(* Response records (evaluate_prompt, the completion loop).                *)
(***************************************************************************)
\* The record appended when _get_completion returned `response`.
SuccessRecord(i, case, response) ==
    [case_id |-> i, input |-> case.input, output |-> response,
     expected |-> case.expected, error |-> FALSE]

\* Faulty variant: the error record without its "error" key.
ErrorRecordUnmarked(i, case) ==
    [case_id |-> i, input |-> case.input, output |-> ErrorOutput,
     expected |-> case.expected, error |-> FALSE]

\* The record appended when _get_completion raised.
ErrorRecord(i, case) ==
    [case_id |-> i, input |-> case.input, output |-> ErrorOutput,
     expected |-> case.expected, error |-> TRUE]

\* resp.get("expected") is truthy: not None and not the empty string.
HasExpected(resp) == resp.expected # None /\ resp.expected[1] # <<>>

(***************************************************************************)
(* _evaluate_exact_match                                                   *)
(***************************************************************************)
\* Faulty variant: the comparison without strip().
OutputMatchesUnstripped(resp) ==
    StrLower(resp.output) = StrLower(resp.expected[1])

\* resp["output"].strip().lower() == resp["expected"].strip().lower()
OutputMatches(resp) ==
    StripLower[resp.output] = StripLower[resp.expected[1]]

RECURSIVE ExactMatchLoop(_, _)
ExactMatchLoop(responses, acc) ==
    IF responses = <<>> THEN acc
    ELSE LET resp == Head(responses)
             rest == Tail(responses)
         IN  IF resp.error
             THEN ExactMatchLoop(rest, [acc EXCEPT !.errors = @ + 1])
             ELSE IF HasExpected(resp)
             THEN ExactMatchLoop(rest,
                    [acc EXCEPT !.total = @ + 1,
                                !.correct = IF OutputMatches(resp) THEN @ + 1 ELSE @])
             ELSE ExactMatchLoop(rest, acc)

\* Faulty variant: an empty pool counted as fully accurate.
evaluate_exact_match_vacuous(responses, cfg) ==
    LET c == ExactMatchLoop(responses, [correct |-> 0, total |-> 0, errors |-> 0])
        accuracy == IF c.total > 0 THEN Rat(c.correct, c.total) ELSE <<1, 1>>
    IN  [accuracy |-> accuracy,
         correct |-> c.correct,
         total |-> c.total,
         errors |-> c.errors,
         meets_threshold |-> PyBool(RatGeq(accuracy, cfg.metrics.accuracy_threshold))]

evaluate_exact_match(responses, cfg) ==
    LET c == ExactMatchLoop(responses, [correct |-> 0, total |-> 0, errors |-> 0])
        accuracy == IF c.total > 0 THEN Rat(c.correct, c.total) ELSE <<0, 1>>
    IN  [accuracy |-> accuracy,
         correct |-> c.correct,
         total |-> c.total,
         errors |-> c.errors,
         meets_threshold |-> PyBool(RatGeq(accuracy, cfg.metrics.accuracy_threshold))]

(***************************************************************************)
(* _evaluate_consistency                                                   *)
(***************************************************************************)
\* sentence_model.encode: one vector per text, the same text always to the
\* same vector.  Embeddings have components of either sign, so two texts
\* can have a negative cosine similarity.
Embed(text) ==
    CASE text = TxtParis -> <<4, 3>>
      [] text = TxtParisPadded -> <<6, 8>>
      [] text = TxtLondon -> <<-5, 0>>
      [] OTHER -> <<0, 5>>

Dot(a, b) == a[1] * b[1] + a[2] * b[2]

\* np.linalg.norm; the vectors of Embed have integer norms.
Norm(a) == CHOOSE n \in 0..(Abs(a[1]) + Abs(a[2])) : n * n = Dot(a, a)

CosineSimilarity(a, b) == Rat(Dot(a, b), Norm(a) * Norm(b))

\* The similarity of the embeddings of two outputs, computed once.
OutputSimilarity ==
    [a \in Texts, b \in Texts |-> CosineSimilarity(Embed(a), Embed(b))]

\* The (i, j) the nested loops visit, in order: i in range(n), j in range(i+1, n).
\* Faulty variant: the inner loop started at i instead of i + 1.
RECURSIVE PairLoopFromSelf(_, _, _)
PairLoopFromSelf(i, j, n) ==
    IF i > n THEN <<>>
    ELSE IF j > n THEN PairLoopFromSelf(i + 1, i + 1, n)
    ELSE <<<<i, j>>>> \o PairLoopFromSelf(i, j + 1, n)

RECURSIVE PairLoop(_, _, _)
PairLoop(i, j, n) ==
    IF i > n THEN <<>>
    ELSE IF j > n THEN PairLoop(i + 1, i + 2, n)
    ELSE <<<<i, j>>>> \o PairLoop(i, j + 1, n)

IndexPairs(n) == PairLoop(1, 2, n)

\* Faulty variant: the outputs of the error records included.
OutputsWithErrors(responses) ==
    [k \in 1..Len(responses) |-> responses[k].output]

\* [resp["output"] for resp in responses if not resp.get("error")]
NonErrorOutputs(responses) ==
    LET ok == SelectSeq(responses, LAMBDA r : ~r.error)
    IN  [k \in 1..Len(ok) |-> ok[k].output]

Similarities(outputs) ==
    LET pairs == IndexPairs(Len(outputs))
    IN  [k \in 1..Len(pairs) |->
            OutputSimilarity[outputs[pairs[k][1]], outputs[pairs[k][2]]]]

evaluate_consistency(responses, cfg) ==
    LET outputs == NonErrorOutputs(responses)
    IN  IF Len(outputs) < 2
        THEN [consistency_score |-> <<0, 1>>,
              note |-> "Insufficient responses for consistency check"]
        ELSE LET similarities == Similarities(outputs)
                 avg_similarity == RatMean(similarities)
             IN  [consistency_score |-> avg_similarity,
                  total_comparisons |-> Len(similarities),
                  meets_threshold |->
                      NumpyBool(RatGeq(avg_similarity, cfg.metrics.consistency_threshold))]

(***************************************************************************)
(* _evaluate_quality: the grading loop is an action (GradeResponse); these *)
(* are its pure parts.                                                     *)
(***************************************************************************)
Digits == <<"0", "1", "2", "3", "4", "5", "6", "7", "8", "9">>

IsDigit(c) == \E d \in 1..10 : Digits[d] = c

DigitValue(c) == (CHOOSE d \in 1..10 : Digits[d] = c) - 1

RECURSIVE DigitsValue(_, _)
DigitsValue(s, acc) ==
    IF s = <<>> THEN acc ELSE DigitsValue(Tail(s), 10 * acc + DigitValue(Head(s)))

\* int(text.strip()): [ok |-> FALSE] stands for the ValueError.
ParseInt(text) ==
    LET t == StrStrip(text)
    IN  IF t # <<>> /\ \A k \in 1..Len(t) : IsDigit(t[k])
        THEN [ok |-> TRUE, value |-> DigitsValue(t, 0)]
        ELSE [ok |-> FALSE, value |-> 0]

\* What the grading service can do for one response: raise, or answer a text.
GradeTexts == {<<"5">>, <<" ", "3", "\n">>, <<"6">>, <<"o", "k">>}

\* int(text.strip()) of every grading answer of the model, computed once.
ParsedGrade == [t \in GradeTexts |-> ParseInt(t)]

GradeOutcomes ==
    {[raised |-> TRUE, text |-> <<>>]}
    \cup {[raised |-> FALSE, text |-> t] : t \in GradeTexts}

\* Faulty variant: the range check without its upper end.
ScoresAfterGradeNoUpper(quality_scores, outcome) ==
    IF outcome.raised THEN quality_scores
    ELSE LET score == ParsedGrade[outcome.text]
         IN  IF score.ok /\ 1 <= score.value
             THEN Append(quality_scores, score.value)
             ELSE quality_scores

\* quality_scores after the try block of one response.
ScoresAfterGrade(quality_scores, outcome) ==
    IF outcome.raised THEN quality_scores
    ELSE LET score == ParsedGrade[outcome.text]
         IN  IF score.ok /\ 1 <= score.value /\ score.value <= 5
             THEN Append(quality_scores, score.value)
             ELSE quality_scores

\* The return value of _evaluate_quality for the collected quality_scores.
QualityResult(quality_scores, cfg) ==
    IF quality_scores = <<>>
    THEN [average_quality |-> <<0, 1>>, note |-> "No valid quality scores"]
    ELSE LET avg_quality == Rat(SumSeq(quality_scores), Len(quality_scores))
         IN  [average_quality |-> avg_quality,
              quality_scores |-> quality_scores,
              total_evaluated |-> Len(quality_scores),
              meets_threshold |->
                  NumpyBool(RatGeq(avg_quality, cfg.metrics.quality_threshold))]

(***************************************************************************)
(* _evaluate_rouge                                                         *)
(***************************************************************************)
\* rouge_scorer.score(expected, output) for one-word texts: the tokenizer
\* lower-cases and drops what is not alphanumeric, so rouge1 and rougeL are
\* 1 when the words agree and 0 otherwise, and rouge2 (no bigram) is 0.
RougeScore(expected, output) ==
    LET same == StripLower[expected] = StripLower[output]
        f == IF same THEN <<1, 1>> ELSE <<0, 1>>
    IN  [rouge1 |-> f, rouge2 |-> <<0, 1>>, rougeL |-> f]

RougeAverage(score_list) ==
    IF score_list # <<>> THEN RatMean(score_list) ELSE <<0, 1>>

\* Faulty variant: a threshold on rouge1, as the other evaluators have one.
evaluate_rouge_thresholded(responses) ==
    LET scored == SelectSeq(responses, LAMBDA r : ~(r.error \/ ~HasExpected(r)))
        scores == [k \in 1..Len(scored) |->
                      RougeScore(scored[k].expected[1], scored[k].output)]
        avg1 == RougeAverage([k \in 1..Len(scores) |-> scores[k].rouge1])
    IN  [avg_rouge1 |-> avg1,
         avg_rouge2 |-> RougeAverage([k \in 1..Len(scores) |-> scores[k].rouge2]),
         avg_rougeL |-> RougeAverage([k \in 1..Len(scores) |-> scores[k].rougeL]),
         total_evaluated |-> Len(scores),
         meets_threshold |-> PyBool(RatGeq(avg1, <<1, 2>>))]

evaluate_rouge(responses) ==
    LET scored == SelectSeq(responses, LAMBDA r : ~(r.error \/ ~HasExpected(r)))
        scores == [k \in 1..Len(scored) |->
                      RougeScore(scored[k].expected[1], scored[k].output)]
    IN  [avg_rouge1 |-> RougeAverage([k \in 1..Len(scores) |-> scores[k].rouge1]),
         avg_rouge2 |-> RougeAverage([k \in 1..Len(scores) |-> scores[k].rouge2]),
         avg_rougeL |-> RougeAverage([k \in 1..Len(scores) |-> scores[k].rougeL]),
         total_evaluated |-> Len(scores)]

(***************************************************************************)
(* The results dict and _generate_summary                                  *)
(***************************************************************************)
\* results[method] = result, on a dict in which method is not yet a key.
SetResult(results, method, result) ==
    Append(results, [method |-> method, result |-> result])

\* method in results
HasResult(results, method) == \E k \in 1..Len(results) : results[k].method = method

\* results[method]
ResultOf(results, method) ==
    results[CHOOSE k \in 1..Len(results) : results[k].method = method].result

\* Faulty variant: a result without meets_threshold counted as failing.
FailsThresholdOrMissing(result) ==
    "meets_threshold" \notin DOMAIN result \/ ~result.meets_threshold.v

\* "meets_threshold" in result and not result["meets_threshold"]
FailsThreshold(result) ==
    "meets_threshold" \in DOMAIN result /\ ~result.meets_threshold.v

\* Faulty variant: result.get("meets_threshold", False).
NotMeetsOrDefaultFalse(result) ==
    ~(IF "meets_threshold" \in DOMAIN result THEN result.meets_threshold.v ELSE FALSE)

\* not result.get("meets_threshold", True)
NotMeetsOrDefault(result) ==
    ~(IF "meets_threshold" \in DOMAIN result THEN result.meets_threshold.v ELSE TRUE)

RecommendationRules ==
    <<[method |-> "exact_match", text |-> "Improve prompt clarity and specificity"],
      [method |-> "consistency", text |-> "Add examples to improve output consistency"],
      [method |-> "quality", text |-> "Enhance prompt with better context and instructions"]>>

generate_summary(results) ==
    LET failed == SelectSeq(results, LAMBDA e : FailsThreshold(e.result))
        fired == SelectSeq(RecommendationRules,
                    LAMBDA r : HasResult(results, r.method)
                               /\ NotMeetsOrDefault(ResultOf(results, r.method)))
    IN  [overall_status |-> IF failed # <<>> THEN "FAIL" ELSE "PASS",
         failed_criteria |-> [k \in 1..Len(failed) |-> failed[k].method],
         recommendations |-> [k \in 1..Len(fired) |-> fired[k].text]]

\* results["summary"] = {} before the summary is generated.
NoSummary ==
    [overall_status |-> "", failed_criteria |-> <<>>, recommendations |-> <<>>]

(***************************************************************************)
(* _save_results: json.dump(results) raises TypeError on a value that is   *)
(* not a Python bool, number, string, list or dict.                        *)
(***************************************************************************)
JsonEncodable(result) ==
    "meets_threshold" \in DOMAIN result => result.meets_threshold.type = "bool"

JsonDumpRaises(results) ==
    \E k \in 1..Len(results) : ~JsonEncodable(results[k].result)

(***************************************************************************)
(* PromptComparator: the metrics of a prompt                               *)
(* (_perform_statistical_comparison, "Extract metrics for each prompt").   *)
(***************************************************************************)
EmptyDict == [k \in {} |-> 0]

\* result.get(key, default)
GetOr(result, key, default) ==
    IF key \in DOMAIN result THEN result[key] ELSE default

ExtractMetrics(eval_results) ==
    (IF HasResult(eval_results, "exact_match")
     THEN LET r == ResultOf(eval_results, "exact_match")
          IN  [accuracy |-> GetOr(r, "accuracy", <<0, 1>>),
               correct_count |-> GetOr(r, "correct", 0),
               total_count |-> GetOr(r, "total", 0)]
     ELSE EmptyDict)
    @@
    (IF HasResult(eval_results, "consistency")
     THEN [consistency_score |->
              GetOr(ResultOf(eval_results, "consistency"), "consistency_score", <<0, 1>>)]
     ELSE EmptyDict)
    @@
    (IF HasResult(eval_results, "quality")
     THEN LET r == ResultOf(eval_results, "quality")
          IN  [average_quality |-> GetOr(r, "average_quality", <<0, 1>>),
               quality_scores |-> GetOr(r, "quality_scores", <<>>)]
     ELSE EmptyDict)

(***************************************************************************)
(* The statistical tests of scipy.stats, by their outcomes.                *)
(***************************************************************************)
\* self.config["significance_level"]
SignificanceLevel == <<5, 100>>

\* A p-value: a float, or nan.
PValue(r) == [nan |-> FALSE, val |-> r]
NaN == [nan |-> TRUE, val |-> <<0, 1>>]

\* p_value < level; false for nan.
PLess(p, level) == ~p.nan /\ RatLt(p.val, level)

\* The p-values a test of the model can give on data that is not degenerate.
PValues == {PValue(<<1, 100>>), PValue(<<5, 100>>), PValue(<<1, 2>>)}

\* chi2_contingency raises ValueError when an expected frequency is zero,
\* that is when a row or a column of the table sums to zero.
HasZeroMargin(table) ==
    \/ table[1][1] + table[1][2] = 0
    \/ table[2][1] + table[2][2] = 0
    \/ table[1][1] + table[2][1] = 0
    \/ table[1][2] + table[2][2] = 0

ChiSquareOutcomes(table) ==
    IF HasZeroMargin(table)
    THEN {[raised |-> TRUE, p_value |-> NaN]}
    ELSE {[raised |-> FALSE, p_value |-> p] : p \in PValues}

IsConstant(scores) == \A k \in 1..Len(scores) : scores[k] = scores[1]

\* ttest_ind does not raise on non-empty samples.  A sample of one value has
\* no variance estimate and gives nan; two samples without variance give nan
\* when their means agree (0/0) and otherwise an infinite statistic with
\* p-value 0, or nan.
TTestOutcomes(scores_a, scores_b) ==
    IF Len(scores_a) = 1 \/ Len(scores_b) = 1
    THEN {[raised |-> FALSE, p_value |-> NaN]}
    ELSE IF IsConstant(scores_a) /\ IsConstant(scores_b)
    THEN IF scores_a[1] = scores_b[1]
         THEN {[raised |-> FALSE, p_value |-> NaN]}
         ELSE {[raised |-> FALSE, p_value |-> PValue(<<0, 1>>)],
               [raised |-> FALSE, p_value |-> NaN]}
    ELSE {[raised |-> FALSE, p_value |-> p] : p \in PValues}

\* The outcomes of the test on the swapped arguments that give the p-value
\* the test gave on the arguments as passed.
SamePValue(outcomes, outcome) ==
    {o \in outcomes : o.raised = outcome.raised /\ o.p_value = outcome.p_value}

(***************************************************************************)
(* _compare_two_prompts, block by block.  metrics_comparison is a dict in  *)
(* insertion order: a sequence of [metric, detail].                        *)
(***************************************************************************)
RatSub(a, b) == Rat(a[1] * b[2] - b[1] * a[2], a[2] * b[2])

NewComparison(prompt_a, prompt_b) ==
    [prompt_a |-> prompt_a,
     prompt_b |-> prompt_b,
     metrics_comparison |-> <<>>,
     overall_winner |-> "None",
     significant_differences |-> <<>>]

\* Faulty variant: the higher value wins whether significant or not.
UngatedWinner(value_a, value_b, significant, prompt_a, prompt_b) ==
    IF RatGt(value_b, value_a) THEN prompt_b
    ELSE IF RatGt(value_a, value_b) THEN prompt_a
    ELSE "tie"

\* prompt_b if b > a and significant else prompt_a if a > b and significant
\* else "tie"
GatedWinner(value_a, value_b, significant, prompt_a, prompt_b) ==
    IF RatGt(value_b, value_a) /\ significant THEN prompt_b
    ELSE IF RatGt(value_a, value_b) /\ significant THEN prompt_a
    ELSE "tie"

\* Faulty variant: on a significant difference of equal values the second
\* argument wins.
WithTestedMetricBiased(comparison, metric, value_a, value_b, p_value, prompt_a, prompt_b) ==
    LET significant == PLess(p_value, SignificanceLevel)
        detail == [prompt_a_value |-> value_a,
                   prompt_b_value |-> value_b,
                   difference |-> RatSub(value_b, value_a),
                   p_value |-> p_value,
                   statistically_significant |-> significant,
                   winner |-> IF significant /\ RatGeq(value_b, value_a) THEN prompt_b
                              ELSE IF significant THEN prompt_a
                              ELSE "tie"]
    IN  [comparison EXCEPT
            !.metrics_comparison = Append(@, [metric |-> metric, detail |-> detail]),
            !.significant_differences = IF significant THEN Append(@, metric) ELSE @]

\* The entry of a tested metric and, if significant, its name in
\* significant_differences.
WithTestedMetric(comparison, metric, value_a, value_b, p_value, prompt_a, prompt_b) ==
    LET significant == PLess(p_value, SignificanceLevel)
        detail == [prompt_a_value |-> value_a,
                   prompt_b_value |-> value_b,
                   difference |-> RatSub(value_b, value_a),
                   p_value |-> p_value,
                   statistically_significant |-> significant,
                   winner |-> GatedWinner(value_a, value_b, significant,
                                          prompt_a, prompt_b)]
    IN  [comparison EXCEPT
            !.metrics_comparison = Append(@, [metric |-> metric, detail |-> detail]),
            !.significant_differences = IF significant THEN Append(@, metric) ELSE @]

ContingencyTable(metrics_a, metrics_b) ==
    <<<<metrics_a.correct_count, metrics_a.total_count - metrics_a.correct_count>>,
      <<metrics_b.correct_count, metrics_b.total_count - metrics_b.correct_count>>>>

\* The accuracy block runs its chi-square test.
AccuracyTested(metrics_a, metrics_b) ==
    /\ "accuracy" \in DOMAIN metrics_a /\ "accuracy" \in DOMAIN metrics_b
    /\ "correct_count" \in DOMAIN metrics_a /\ "total_count" \in DOMAIN metrics_a

\* Faulty variant: the entry is written although chi2_contingency raised.
CompareAccuracyUncaught(comparison, metrics_a, metrics_b, chi) ==
    IF AccuracyTested(metrics_a, metrics_b)
    THEN WithTestedMetric(comparison, "accuracy", metrics_a.accuracy,
                          metrics_b.accuracy, chi.p_value,
                          comparison.prompt_a, comparison.prompt_b)
    ELSE comparison

\* "Compare accuracy", given what chi2_contingency did.
CompareAccuracy(comparison, metrics_a, metrics_b, chi) ==
    IF AccuracyTested(metrics_a, metrics_b) /\ ~chi.raised
    THEN WithTestedMetric(comparison, "accuracy", metrics_a.accuracy,
                          metrics_b.accuracy, chi.p_value,
                          comparison.prompt_a, comparison.prompt_b)
    ELSE comparison

\* The quality block runs its t-test.
QualityTested(metrics_a, metrics_b) ==
    /\ "quality_scores" \in DOMAIN metrics_a /\ "quality_scores" \in DOMAIN metrics_b
    /\ Len(metrics_a.quality_scores) > 0 /\ Len(metrics_b.quality_scores) > 0

ScoreMean(scores) == Rat(SumSeq(scores), Len(scores))

\* "Compare quality scores", given what ttest_ind did.
CompareQuality(comparison, metrics_a, metrics_b, t) ==
    IF QualityTested(metrics_a, metrics_b) /\ ~t.raised
    THEN WithTestedMetric(comparison, "quality",
                          ScoreMean(metrics_a.quality_scores),
                          ScoreMean(metrics_b.quality_scores), t.p_value,
                          comparison.prompt_a, comparison.prompt_b)
    ELSE comparison

\* "Compare consistency".
CompareConsistency(comparison, metrics_a, metrics_b) ==
    IF "consistency_score" \in DOMAIN metrics_a /\ "consistency_score" \in DOMAIN metrics_b
    THEN LET cons_a == metrics_a.consistency_score
             cons_b == metrics_b.consistency_score
             detail == [prompt_a_value |-> cons_a,
                        prompt_b_value |-> cons_b,
                        difference |-> RatSub(cons_b, cons_a),
                        descriptive_winner |->
                            IF RatGt(cons_b, cons_a) THEN comparison.prompt_b
                            ELSE IF RatGt(cons_a, cons_b) THEN comparison.prompt_a
                            ELSE "tie"]
         IN  [comparison EXCEPT
                 !.metrics_comparison =
                     Append(@, [metric |-> "consistency", detail |-> detail])]
    ELSE comparison

\* Faulty variant: descriptive_winner fields vote too.
WinnersWithDescriptive(comparison) ==
    LET field(e) == IF "winner" \in DOMAIN e.detail THEN e.detail.winner
                    ELSE e.detail.descriptive_winner
        voting == SelectSeq(comparison.metrics_comparison,
                     LAMBDA e : field(e) \notin {"tie", "None"})
    IN  [k \in 1..Len(voting) |-> field(voting[k])]

\* The winners list: the non-tie winner fields, in dict order.
Winners(comparison) ==
    LET voting == SelectSeq(comparison.metrics_comparison,
                     LAMBDA e : "winner" \in DOMAIN e.detail
                                /\ e.detail.winner \notin {"tie", "None"})
    IN  [k \in 1..Len(voting) |-> voting[k].detail.winner]

CountOf(x, list) == Cardinality({k \in 1..Len(list) : list[k] = x})

\* max(winner_counts, key=winner_counts.get): the first key, in order of
\* first appearance, whose count is the largest.
MajorityVote(winners) ==
    LET best == CHOOSE k \in 1..Len(winners) :
                   /\ \A j \in 1..Len(winners) :
                         CountOf(winners[j], winners) <= CountOf(winners[k], winners)
                   /\ \A j \in 1..(k - 1) :
                         CountOf(winners[j], winners) < CountOf(winners[k], winners)
    IN  winners[best]

\* Faulty variant: without votes the first prompt wins.
DetermineOverallWinnerNoTie(comparison) ==
    LET winners == Winners(comparison)
    IN  [comparison EXCEPT
            !.overall_winner = IF winners # <<>> THEN MajorityVote(winners)
                               ELSE comparison.prompt_a]

\* "Determine overall winner".
DetermineOverallWinner(comparison) ==
    LET winners == Winners(comparison)
    IN  [comparison EXCEPT
            !.overall_winner = IF winners # <<>> THEN MajorityVote(winners) ELSE "tie"]

\* _compare_two_prompts as a whole, given what its two tests did.
CompareTwoPrompts(metrics_a, metrics_b, prompt_a, prompt_b, chi, t) ==
    DetermineOverallWinner(
        CompareConsistency(
            CompareQuality(
                CompareAccuracy(NewComparison(prompt_a, prompt_b),
                                metrics_a, metrics_b, chi),
                metrics_a, metrics_b, t),
            metrics_a, metrics_b))

\* The outcome standing for a test that is not run.
NoTest == [raised |-> TRUE, p_value |-> NaN]

ChiSquareRuns(metrics_a, metrics_b) ==
    IF AccuracyTested(metrics_a, metrics_b)
    THEN ChiSquareOutcomes(ContingencyTable(metrics_a, metrics_b))
    ELSE {NoTest}

TTestRuns(metrics_a, metrics_b) ==
    IF QualityTested(metrics_a, metrics_b)
    THEN TTestOutcomes(metrics_a.quality_scores, metrics_b.quality_scores)
    ELSE {NoTest}

(***************************************************************************)
(* _perform_statistical_comparison: the ranking.                           *)
(***************************************************************************)
\* f"prompt_{i+1}" of compare_prompts, for the k-th prompt (k from 1)
PromptId(k) == "prompt_" \o ToString(k)

\* The weights 0.4, 0.3 and 0.3, and the 5.0 that normalizes the quality.
AccuracyWeight == <<2, 5>>
ConsistencyWeight == <<3, 10>>
QualityWeight == <<3, 10>>
QualityScale == <<5, 1>>

\* [score, weight_sum] after the three "if ... in metrics" blocks.
WeightedSums(metrics) ==
    LET s0 == [score |-> <<0, 1>>, weight_sum |-> <<0, 1>>]
        s1 == IF "accuracy" \in DOMAIN metrics
              THEN [score |-> RatAdd(s0.score, RatMul(metrics.accuracy, AccuracyWeight)),
                    weight_sum |-> RatAdd(s0.weight_sum, AccuracyWeight)]
              ELSE s0
        s2 == IF "consistency_score" \in DOMAIN metrics
              THEN [score |-> RatAdd(s1.score,
                                     RatMul(metrics.consistency_score, ConsistencyWeight)),
                    weight_sum |-> RatAdd(s1.weight_sum, ConsistencyWeight)]
              ELSE s1
    IN  IF "average_quality" \in DOMAIN metrics
        THEN [score |-> RatAdd(s2.score,
                               RatMul(RatDiv(metrics.average_quality, QualityScale),
                                      QualityWeight)),
              weight_sum |-> RatAdd(s2.weight_sum, QualityWeight)]
        ELSE s2

\* Faulty variant: the weighted sum is not divided by the weights used.
CompositeScoreUnnormalized(metrics) == WeightedSums(metrics).score

\* score / weight_sum if weight_sum > 0 else 0
CompositeScore(metrics) ==
    LET w == WeightedSums(metrics)
    IN  IF RatGt(w.weight_sum, <<0, 1>>) THEN RatDiv(w.score, w.weight_sum)
        ELSE <<0, 1>>

\* Faulty variant: an item is put before the items of equal score.
RECURSIVE InsertBeforeEqual(_, _)
InsertBeforeEqual(sorted, item) ==
    IF sorted = <<>> THEN <<item>>
    ELSE IF RatGt(Head(sorted).score, item.score)
    THEN <<Head(sorted)>> \o InsertBeforeEqual(Tail(sorted), item)
    ELSE <<item>> \o sorted

\* One step of a stable descending sort: the item goes after every item
\* whose score is at least its own.
RECURSIVE InsertDescending(_, _)
InsertDescending(sorted, item) ==
    IF sorted = <<>> THEN <<item>>
    ELSE IF RatGeq(Head(sorted).score, item.score)
    THEN <<Head(sorted)>> \o InsertDescending(Tail(sorted), item)
    ELSE <<item>> \o sorted

\* sorted(ranking_scores.items(), key=lambda x: x[1], reverse=True): the
\* sort is stable, with reverse=True too.
RECURSIVE SortedByScore(_)
SortedByScore(items) ==
    IF items = <<>> THEN <<>>
    ELSE InsertDescending(SortedByScore(SubSeq(items, 1, Len(items) - 1)),
                          items[Len(items)])

(***************************************************************************)
(* _generate_recommendation                                                *)
(***************************************************************************)
\* if score_difference < 0.05
CloseGap == <<5, 100>>

\* Faulty variant: the significant differences of every comparison are
\* collected, whoever won it.
SignificantImprovementsOfAll(best_prompt, pairwise) ==
    UNION {{pairwise[k].comparison.significant_differences[i] :
               i \in 1..Len(pairwise[k].comparison.significant_differences)}
           : k \in 1..Len(pairwise)}

\* The loop over the pairwise comparisons, and list(set(...)): the
\* significant differences of the comparisons the best prompt won.
SignificantImprovements(best_prompt, pairwise) ==
    UNION {{pairwise[k].comparison.significant_differences[i] :
               i \in 1..Len(pairwise[k].comparison.significant_differences)}
           : k \in {j \in 1..Len(pairwise) :
                      /\ pairwise[j].comparison.overall_winner = best_prompt
                      /\ pairwise[j].comparison.significant_differences # <<>>}}

\* Faulty variant: a close second gives 'low' only when nothing significant
\* was found.
CloseCallUnlessSignificant(rec, ranking) ==
    IF Len(ranking) > 1
    THEN LET score_difference == RatSub(ranking[1].score, ranking[2].score)
             second == [score_advantage |-> score_difference,
                        runner_up |-> ranking[2].prompt_id]
         IN  IF RatLt(score_difference, CloseGap) /\ rec.confidence # "high"
             THEN [confidence |-> "low",
                   note |-> "Results are very close. Consider additional testing."]
                  @@ second @@ rec
             ELSE second @@ rec
    ELSE rec

\* "if len(ranking) > 1": the runner-up, and the downgrade of a close call.
CloseCall(rec, ranking) ==
    IF Len(ranking) > 1
    THEN LET score_difference == RatSub(ranking[1].score, ranking[2].score)
             second == [score_advantage |-> score_difference,
                        runner_up |-> ranking[2].prompt_id]
         IN  IF RatLt(score_difference, CloseGap)
             THEN [confidence |-> "low",
                   note |-> "Results are very close. Consider additional testing."]
                  @@ second @@ rec
             ELSE second @@ rec
    ELSE rec

\* "high" if significant_improvements else "medium"
ConfidenceOf(significant_improvements) ==
    IF significant_improvements # {} THEN "high" ELSE "medium"

generate_recommendation(ranking, pairwise) ==
    IF ranking = <<>>
    THEN [recommended_prompt |-> "None", reason |-> "No valid ranking available"]
    ELSE LET best_prompt == ranking[1].prompt_id
             significant_improvements == SignificantImprovements(best_prompt, pairwise)
         IN  CloseCall([recommended_prompt |-> best_prompt,
                        ranking_score |-> ranking[1].score,
                        significant_improvements |-> significant_improvements,
                        confidence |-> ConfidenceOf(significant_improvements)],
                       ranking)

(***************************************************************************)
(* State of one run of PromptEvaluator.evaluate_prompt.                    *)
(***************************************************************************)
VARIABLES
    test_cases,      \* the loaded test cases, a list of [input, expected]
    user_config,     \* the parsed configuration file
    config,          \* self.config
    pc,              \* where evaluate_prompt is
    responses,       \* the response records, in append order
    calls,           \* the calls of _get_completion: [input, raised], in order
    grade_index,     \* position of the quality loop in responses
    quality_scores,  \* the valid scores collected by the quality loop
    grades,          \* the grading calls made: [case_id, outcome], in order
    results,         \* results["results"], in insertion order
    summary,         \* results["summary"]
    exception        \* the exception evaluate_prompt raised, "" if none

eval_vars ==
    <<test_cases, user_config, config, pc, responses, calls, grade_index,
      quality_scores, grades, results, summary, exception>>

(***************************************************************************)
(* State of one call of PromptComparator._compare_two_prompts.             *)
(***************************************************************************)
VARIABLES
    cmp_pc,      \* where _compare_two_prompts is
    metrics_a,   \* the metrics of the first prompt
    metrics_b,   \* the metrics of the second prompt
    comparison,  \* the comparison dict being built
    mirror       \* the comparison dict of the same call with the two prompts
                 \* swapped, its tests giving the same p-values

cmp_vars == <<cmp_pc, metrics_a, metrics_b, comparison, mirror>>

(***************************************************************************)
(* State of one call of PromptComparator._perform_statistical_comparison.  *)
(***************************************************************************)
VARIABLES
    rank_pc,               \* where _perform_statistical_comparison is
    rank_results,          \* its argument: per prompt, [prompt_id, results]
    prompt_metrics,        \* per prompt, [prompt_id, metrics], in dict order
    pairwise_comparisons,  \* [key, comparison] of the pairs compared so far
    ranking_scores,        \* per prompt, [prompt_id, score], in dict order
    overall_ranking,       \* the sorted ranking
    recommendation         \* what _generate_recommendation returned

rank_vars ==
    <<rank_pc, rank_results, prompt_metrics, pairwise_comparisons,
      ranking_scores, overall_ranking, recommendation>>

(***************************************************************************)
(* State of one call of MCPCogneeIntegrator.process_evaluator_with_mcp.    *)
(***************************************************************************)
VARIABLES
    mcp_pc,                   \* where process_evaluator_with_mcp is
    knowledge_graph_created,  \* evaluator.knowledge_graph_created
    search_queries,           \* evaluator.mcp_queries["search_queries"]
    use_prune,                \* the argument use_prune
    mcp_functions,            \* the keys of self.mcp_functions
    mcp_calls,                \* the MCP functions called, in order
    attempt,                  \* the loop variable of the status loop
    query_index,              \* the loop variable of the search loop
    mcp_results,              \* the results dict
    mcp_exception             \* the exception the call raised, "" if none

mcp_vars ==
    <<mcp_pc, knowledge_graph_created, search_queries, use_prune,
      mcp_functions, mcp_calls, attempt, query_index, mcp_results,
      mcp_exception>>

vars == <<eval_vars, cmp_vars, rank_vars, mcp_vars>>

\* The test-case files of the model: up to MaxCases cases, the i-th with the
\* input InputOf(i) and any expected value.
TestCaseLists ==
    UNION {[1..n -> Expecteds] : n \in 0..MaxCases}

MakeTestCases(exps) ==
    [k \in 1..Len(exps) |-> [input |-> InputOf(k - 1), expected |-> exps[k]]]

\* What _get_completion can do for one case: raise, or return an output.
CompletionOutcomes ==
    {[raised |-> TRUE, text |-> <<>>]}
    \cup {[raised |-> FALSE, text |-> t] : t \in Outputs}

Enabled(method) == InList(method, config.evaluation_methods)

EvalInit ==
    /\ \E exps \in TestCaseLists : test_cases = MakeTestCases(exps)
    /\ user_config \in EvalConfigFiles
    /\ config = load_config(user_config)
    /\ pc = IF test_cases = <<>> THEN "exact_match" ELSE "generate"
    /\ responses = <<>>
    /\ calls = <<>>
    /\ grade_index = 0
    /\ quality_scores = <<>>
    /\ grades = <<>>
    /\ results = <<>>
    /\ summary = NoSummary
    /\ exception = ""

\* One iteration of `for i, case in enumerate(test_cases)`: the call of
\* _get_completion and the append of its record or of the error record.
GetCompletion ==
    /\ pc = "generate"
    /\ LET i == Len(responses)
           case == test_cases[i + 1]
       IN  /\ \E outcome \in CompletionOutcomes :
                /\ calls' = Append(calls,
                      [input |-> case.input, raised |-> outcome.raised])
                /\ responses' = Append(responses,
                      IF outcome.raised
                      THEN ErrorRecord(i, case)
                      ELSE SuccessRecord(i, case, outcome.text))
           /\ pc' = IF i + 1 = Len(test_cases) THEN "exact_match" ELSE "generate"
    /\ UNCHANGED <<test_cases, user_config, config, grade_index, quality_scores, grades,
                   results, summary, exception>>
    /\ UNCHANGED <<cmp_vars, rank_vars, mcp_vars>>

\* _evaluate_exact_match reads its threshold on every call.
exact_match_raises(cfg) == ThresholdMissing(cfg, "accuracy_threshold")

\* _evaluate_consistency reads its threshold unless it returned the note.
consistency_raises(resps, cfg) ==
    /\ Len(NonErrorOutputs(resps)) >= 2
    /\ ThresholdMissing(cfg, "consistency_threshold")

\* _evaluate_quality reads its threshold unless it returned the note.
quality_raises(scores, cfg) ==
    /\ scores # <<>>
    /\ ThresholdMissing(cfg, "quality_threshold")

\* Faulty variant: the evaluator removes the error records from the list.
EvaluateExactMatchInPlace ==
    /\ pc = "exact_match"
    /\ IF ~Enabled("exact_match")
       THEN pc' = "consistency" /\ UNCHANGED <<results, exception, responses>>
       ELSE IF exact_match_raises(config)
       THEN /\ pc' = "raised" /\ exception' = "KeyError"
            /\ UNCHANGED <<results, responses>>
       ELSE /\ results' = SetResult(results, "exact_match",
                                    evaluate_exact_match(responses, config))
            /\ responses' = SelectSeq(responses, LAMBDA r : ~r.error)
            /\ pc' = "consistency"
            /\ UNCHANGED exception
    /\ UNCHANGED <<test_cases, user_config, config, calls,
                   grade_index, quality_scores, grades, summary>>
    /\ UNCHANGED <<cmp_vars, rank_vars, mcp_vars>>

EvaluateExactMatch ==
    /\ pc = "exact_match"
    /\ IF ~Enabled("exact_match")
       THEN pc' = "consistency" /\ UNCHANGED <<results, exception>>
       ELSE IF exact_match_raises(config)
       THEN pc' = "raised" /\ exception' = "KeyError" /\ UNCHANGED results
       ELSE /\ results' = SetResult(results, "exact_match",
                                    evaluate_exact_match(responses, config))
            /\ pc' = "consistency"
            /\ UNCHANGED exception
    /\ UNCHANGED <<test_cases, user_config, config, responses, calls,
                   grade_index, quality_scores, grades, summary>>
    /\ UNCHANGED <<cmp_vars, rank_vars, mcp_vars>>

EvaluateConsistency ==
    /\ pc = "consistency"
    /\ IF ~Enabled("consistency")
       THEN pc' = "quality" /\ UNCHANGED <<results, exception>>
       ELSE IF consistency_raises(responses, config)
       THEN pc' = "raised" /\ exception' = "KeyError" /\ UNCHANGED results
       ELSE /\ results' = SetResult(results, "consistency",
                                    evaluate_consistency(responses, config))
            /\ pc' = "quality"
            /\ UNCHANGED exception
    /\ UNCHANGED <<test_cases, user_config, config, responses, calls,
                   grade_index, quality_scores, grades, summary>>
    /\ UNCHANGED <<cmp_vars, rank_vars, mcp_vars>>

\* `if "quality" in methods`: enter _evaluate_quality or skip it.
StartQuality ==
    /\ pc = "quality"
    /\ pc' = IF Enabled("quality") THEN "grading" ELSE "rouge"
    /\ grade_index' = 1
    /\ quality_scores' = <<>>
    /\ UNCHANGED <<test_cases, user_config, config, responses, calls, grades, results,
                   summary, exception>>
    /\ UNCHANGED <<cmp_vars, rank_vars, mcp_vars>>

\* One iteration of `for resp in responses` of _evaluate_quality: an error
\* record is skipped without a call; otherwise one grading call is made and
\* its score kept if it parses to 1..5.
GradeResponse ==
    /\ pc = "grading"
    /\ grade_index <= Len(responses)
    /\ LET resp == responses[grade_index]
       IN  IF resp.error
           THEN UNCHANGED <<grades, quality_scores>>
           ELSE \E outcome \in GradeOutcomes :
                  /\ grades' = Append(grades,
                        [case_id |-> resp.case_id, outcome |-> outcome])
                  /\ quality_scores' = ScoresAfterGrade(quality_scores, outcome)
    /\ grade_index' = grade_index + 1
    /\ UNCHANGED <<test_cases, user_config, config, pc, responses, calls, results, summary,
                   exception>>
    /\ UNCHANGED <<cmp_vars, rank_vars, mcp_vars>>

\* The end of _evaluate_quality and the store of its result.
FinishQuality ==
    /\ pc = "grading"
    /\ grade_index > Len(responses)
    /\ IF quality_raises(quality_scores, config)
       THEN pc' = "raised" /\ exception' = "KeyError" /\ UNCHANGED results
       ELSE /\ results' = SetResult(results, "quality",
                                    QualityResult(quality_scores, config))
            /\ pc' = "rouge"
            /\ UNCHANGED exception
    /\ UNCHANGED <<test_cases, user_config, config, responses, calls,
                   grade_index, quality_scores, grades, summary>>
    /\ UNCHANGED <<cmp_vars, rank_vars, mcp_vars>>

EvaluateRouge ==
    /\ pc = "rouge"
    /\ results' = IF Enabled("rouge")
                  THEN SetResult(results, "rouge", evaluate_rouge(responses))
                  ELSE results
    /\ pc' = "summary"
    /\ UNCHANGED <<test_cases, user_config, config, responses, calls, grade_index,
                   quality_scores, grades, summary, exception>>
    /\ UNCHANGED <<cmp_vars, rank_vars, mcp_vars>>

GenerateSummary ==
    /\ pc = "summary"
    /\ summary' = generate_summary(results)
    /\ pc' = "save"
    /\ UNCHANGED <<test_cases, user_config, config, responses, calls, grade_index,
                   quality_scores, grades, results, exception>>
    /\ UNCHANGED <<cmp_vars, rank_vars, mcp_vars>>

\* _save_results (called on both branches of `if output_path`) and the
\* return: json.dump raises out of evaluate_prompt, or the results are
\* returned.
SaveResults ==
    /\ pc = "save"
    /\ IF JsonDumpRaises(results)
       THEN pc' = "raised" /\ exception' = "TypeError"
       ELSE pc' = "returned" /\ exception' = ""
    /\ UNCHANGED <<test_cases, user_config, config, responses, calls, grade_index,
                   quality_scores, grades, results, summary>>
    /\ UNCHANGED <<cmp_vars, rank_vars, mcp_vars>>

EvalNext ==
    \/ GetCompletion
    \/ EvaluateExactMatch
    \/ EvaluateConsistency
    \/ StartQuality
    \/ GradeResponse
    \/ FinishQuality
    \/ EvaluateRouge
    \/ GenerateSummary
    \/ SaveResults

\* No comparison is running.
CmpIdle ==
    /\ cmp_pc = "idle"
    /\ metrics_a = EmptyDict
    /\ metrics_b = EmptyDict
    /\ comparison = NewComparison("", "")
    /\ mirror = NewComparison("", "")

\* No evaluation is running; `cfg` is the evaluator's configuration, from a
\* file that sets every key.
EvalIdle(cfg) ==
    /\ test_cases = <<>>
    /\ user_config = cfg
    /\ config = cfg
    /\ pc = "idle"
    /\ responses = <<>>
    /\ calls = <<>>
    /\ grade_index = 0
    /\ quality_scores = <<>>
    /\ grades = <<>>
    /\ results = <<>>
    /\ summary = NoSummary
    /\ exception = ""

\* results["results"] as evaluate_prompt fills it for the given responses
\* and the quality scores its gradings gave.
EvalResults(resps, scores, cfg) ==
    (IF InList("exact_match", cfg.evaluation_methods)
     THEN <<[method |-> "exact_match", result |-> evaluate_exact_match(resps, cfg)]>>
     ELSE <<>>)
    \o (IF InList("consistency", cfg.evaluation_methods)
        THEN <<[method |-> "consistency", result |-> evaluate_consistency(resps, cfg)]>>
        ELSE <<>>)
    \o (IF InList("quality", cfg.evaluation_methods)
        THEN <<[method |-> "quality", result |-> QualityResult(scores, cfg)]>>
        ELSE <<>>)
    \o (IF InList("rouge", cfg.evaluation_methods)
        THEN <<[method |-> "rouge", result |-> evaluate_rouge(resps)]>>
        ELSE <<>>)

\* The response lists of a compared prompt: every case answered, with
\* Paris (right) or London (wrong).
CmpResponseLists ==
    UNION {{[k \in 1..n |->
                SuccessRecord(k - 1,
                    [input |-> InputOf(k - 1), expected |-> Some(TxtparisLower)],
                    outs[k])] : outs \in [1..n -> {TxtParis, TxtLondon}]}
           : n \in 0..MaxCases}

\* The quality_scores lists of a compared prompt.
CmpScoreLists == {<<>>, <<5>>, <<3, 3>>, <<5, 5>>, <<3, 5>>}

CmpInit ==
    \E cfg \in Configs, ra \in CmpResponseLists, rb \in CmpResponseLists,
       sa \in CmpScoreLists, sb \in CmpScoreLists :
        /\ Len(sa) <= Len(ra)
        /\ Len(sb) <= Len(rb)
        /\ EvalIdle(cfg)
        /\ metrics_a = ExtractMetrics(EvalResults(ra, sa, cfg))
        /\ metrics_b = ExtractMetrics(EvalResults(rb, sb, cfg))
        /\ comparison = NewComparison("prompt_1", "prompt_2")
        /\ mirror = NewComparison("prompt_2", "prompt_1")
        /\ cmp_pc = "accuracy"

\* "Compare accuracy (if available)": the chi-square test and its entry.
CmpAccuracy ==
    /\ cmp_pc = "accuracy"
    /\ IF AccuracyTested(metrics_a, metrics_b)
       THEN \E chi \in ChiSquareOutcomes(ContingencyTable(metrics_a, metrics_b)) :
               /\ comparison' = CompareAccuracy(comparison, metrics_a, metrics_b, chi)
               /\ \E chi_m \in SamePValue(
                         ChiSquareOutcomes(ContingencyTable(metrics_b, metrics_a)), chi) :
                      mirror' = CompareAccuracy(mirror, metrics_b, metrics_a, chi_m)
       ELSE /\ comparison' = comparison
            /\ mirror' = mirror
    /\ cmp_pc' = "quality"
    /\ UNCHANGED <<metrics_a, metrics_b>>
    /\ UNCHANGED <<eval_vars, rank_vars, mcp_vars>>

\* "Compare quality scores (if available)": the t-test and its entry.
CmpQuality ==
    /\ cmp_pc = "quality"
    /\ IF QualityTested(metrics_a, metrics_b)
       THEN \E t \in TTestOutcomes(metrics_a.quality_scores, metrics_b.quality_scores) :
               /\ comparison' = CompareQuality(comparison, metrics_a, metrics_b, t)
               /\ \E t_m \in SamePValue(
                         TTestOutcomes(metrics_b.quality_scores,
                                       metrics_a.quality_scores), t) :
                      mirror' = CompareQuality(mirror, metrics_b, metrics_a, t_m)
       ELSE /\ comparison' = comparison
            /\ mirror' = mirror
    /\ cmp_pc' = "consistency"
    /\ UNCHANGED <<metrics_a, metrics_b>>
    /\ UNCHANGED <<eval_vars, rank_vars, mcp_vars>>

CmpConsistency ==
    /\ cmp_pc = "consistency"
    /\ comparison' = CompareConsistency(comparison, metrics_a, metrics_b)
    /\ mirror' = CompareConsistency(mirror, metrics_b, metrics_a)
    /\ cmp_pc' = "winner"
    /\ UNCHANGED <<metrics_a, metrics_b>>
    /\ UNCHANGED <<eval_vars, rank_vars, mcp_vars>>

CmpOverallWinner ==
    /\ cmp_pc = "winner"
    /\ comparison' = DetermineOverallWinner(comparison)
    /\ mirror' = DetermineOverallWinner(mirror)
    /\ cmp_pc' = "done"
    /\ UNCHANGED <<metrics_a, metrics_b>>
    /\ UNCHANGED <<eval_vars, rank_vars, mcp_vars>>

CmpNext ==
    \/ CmpAccuracy
    \/ CmpQuality
    \/ CmpConsistency
    \/ CmpOverallWinner

(***************************************************************************)
(* _perform_statistical_comparison, loop by loop.                          *)
(***************************************************************************)
\* No ranking is running.
RankIdle ==
    /\ rank_pc = "idle"
    /\ rank_results = <<>>
    /\ prompt_metrics = <<>>
    /\ pairwise_comparisons = <<>>
    /\ ranking_scores = <<>>
    /\ overall_ranking = <<>>
    /\ recommendation = EmptyDict

\* A configuration with no method that yields a ranked metric.
RougeOnlyConfig == [evaluation_methods |-> <<"rouge">>, metrics |-> DefaultMetrics]

RankConfigs == Configs \cup {RougeOnlyConfig}

RightAnswer(k) ==
    SuccessRecord(k - 1, [input |-> InputOf(k - 1), expected |-> Some(TxtparisLower)],
                  TxtParis)

WrongAnswer(k) ==
    SuccessRecord(k - 1, [input |-> InputOf(k - 1), expected |-> Some(TxtparisLower)],
                  TxtLondon)

\* The evaluations of a ranked prompt: its responses and the valid scores
\* its gradings gave.
RankRuns ==
    {[responses |-> <<>>, scores |-> <<>>],
     [responses |-> <<RightAnswer(1)>>, scores |-> <<5>>],
     [responses |-> <<RightAnswer(1), RightAnswer(2)>>, scores |-> <<>>],
     [responses |-> <<RightAnswer(1), WrongAnswer(2)>>, scores |-> <<3, 5>>],
     [responses |-> <<WrongAnswer(1), WrongAnswer(2)>>, scores |-> <<5, 5>>],
     [responses |-> <<RightAnswer(1), RightAnswer(2)>>, scores |-> <<3, 3>>],
     [responses |-> <<WrongAnswer(1)>>, scores |-> <<3>>]}

RankInit ==
    \E cfg \in RankConfigs, n \in 2..MaxPrompts :
        \E runs \in [1..n -> RankRuns] :
            /\ EvalIdle(cfg)
            /\ CmpIdle
            /\ rank_pc = "extract"
            /\ rank_results =
                  [k \in 1..n |->
                      [prompt_id |-> PromptId(k),
                       results |-> EvalResults(runs[k].responses, runs[k].scores, cfg)]]
            /\ prompt_metrics = <<>>
            /\ pairwise_comparisons = <<>>
            /\ ranking_scores = <<>>
            /\ overall_ranking = <<>>
            /\ recommendation = EmptyDict

\* "Extract metrics for each prompt": one pass of the loop.
RankExtract ==
    /\ rank_pc = "extract"
    /\ LET k == Len(prompt_metrics) + 1
       IN  /\ prompt_metrics' =
                 Append(prompt_metrics,
                        [prompt_id |-> rank_results[k].prompt_id,
                         metrics |-> ExtractMetrics(rank_results[k].results)])
           /\ rank_pc' = IF k = Len(rank_results) THEN "pairwise" ELSE "extract"
    /\ UNCHANGED <<rank_results, pairwise_comparisons, ranking_scores, overall_ranking>>
    /\ UNCHANGED recommendation
    /\ UNCHANGED <<eval_vars, cmp_vars, mcp_vars>>

\* "Pairwise comparisons": one pass of the inner loop.
RankCompare ==
    /\ rank_pc = "pairwise"
    /\ LET pairs == IndexPairs(Len(prompt_metrics))
           p == pairs[Len(pairwise_comparisons) + 1]
           a == prompt_metrics[p[1]]
           b == prompt_metrics[p[2]]
       IN  /\ \E chi \in ChiSquareRuns(a.metrics, b.metrics),
                 t \in TTestRuns(a.metrics, b.metrics) :
                  pairwise_comparisons' =
                      Append(pairwise_comparisons,
                             [key |-> <<a.prompt_id, "vs", b.prompt_id>>,
                              comparison |->
                                  CompareTwoPrompts(a.metrics, b.metrics,
                                                    a.prompt_id, b.prompt_id, chi, t)])
           /\ rank_pc' = IF Len(pairwise_comparisons) + 1 = Len(pairs)
                         THEN "score" ELSE "pairwise"
    /\ UNCHANGED <<rank_results, prompt_metrics, ranking_scores, overall_ranking>>
    /\ UNCHANGED recommendation
    /\ UNCHANGED <<eval_vars, cmp_vars, mcp_vars>>

\* "Overall ranking based on combined metrics": one pass of the loop.
RankScore ==
    /\ rank_pc = "score"
    /\ LET k == Len(ranking_scores) + 1
       IN  /\ ranking_scores' =
                 Append(ranking_scores,
                        [prompt_id |-> prompt_metrics[k].prompt_id,
                         score |-> CompositeScore(prompt_metrics[k].metrics)])
           /\ rank_pc' = IF k = Len(prompt_metrics) THEN "sort" ELSE "score"
    /\ UNCHANGED <<rank_results, prompt_metrics, pairwise_comparisons, overall_ranking>>
    /\ UNCHANGED recommendation
    /\ UNCHANGED <<eval_vars, cmp_vars, mcp_vars>>

\* "Sort by score", and the return.
RankSort ==
    /\ rank_pc = "sort"
    /\ overall_ranking' = SortedByScore(ranking_scores)
    /\ rank_pc' = "done"
    /\ UNCHANGED <<rank_results, prompt_metrics, pairwise_comparisons, ranking_scores>>
    /\ UNCHANGED recommendation
    /\ UNCHANGED <<eval_vars, cmp_vars, mcp_vars>>

\* compare_prompts: self._generate_recommendation(comparison_results)
RankRecommend ==
    /\ rank_pc = "done"
    /\ recommendation' = generate_recommendation(overall_ranking, pairwise_comparisons)
    /\ rank_pc' = "recommended"
    /\ UNCHANGED <<rank_results, prompt_metrics, pairwise_comparisons, ranking_scores,
                   overall_ranking>>
    /\ UNCHANGED <<eval_vars, cmp_vars, mcp_vars>>

RankNext ==
    \/ RankExtract
    \/ RankCompare
    \/ RankScore
    \/ RankSort
    \/ RankRecommend

(***************************************************************************)
(* MCPCogneeIntegrator (mcp_integration/utils.py): the MCP functions are   *)
(* supplied by the caller; each call of one returns or raises.             *)
(***************************************************************************)
\* The default of the parameter max_wait of _wait_for_cognify_completion.
max_wait == 60

\* The functions a caller can supply.
McpFunctionNames == {"prune", "cognify", "cognify_status", "search"}

\* The function dicts of the model: all four functions, one of them left
\* out, or none.
McpFunctionSets ==
    {McpFunctionNames, {}} \cup {McpFunctionNames \ {f} : f \in McpFunctionNames}

\* The search queries _prepare_mcp_queries made: n of them, the k-th with
\* its search_query and search_type.
PreparedQueries(n) ==
    [k \in 1..n |-> [search_query |-> k, search_type |-> "GRAPH_COMPLETION"]]

\* Replies of the cognify_status function.
TxtBusy == <<"b", "u", "s", "y">>
TxtCompleted == <<"C", "O", "M", "P", "L", "E", "T", "E", "D">>
TxtFinished == <<"F", "i", "n", "i", "s", "h", "e", "d">>
TxtSuccess == <<"s", "u", "c", "c", "e", "s", "s">>

StatusTexts == {TxtBusy, TxtCompleted, TxtFinished, TxtSuccess}

\* word in text
Contains(text, word) ==
    \E i \in 1..(Len(text) - Len(word) + 1) :
        SubSeq(text, i, i + Len(word) - 1) = word

\* 'complete' in status_text or 'finished' in status_text or 'success' in
\* status_text, for status_text = str(status_result).lower(); the reply is
\* a str, which str() returns as it is.
ReportsCompletion ==
    [status_result \in StatusTexts |->
        LET status_text == StrLower(status_result)
        IN  \/ Contains(status_text, <<"c", "o", "m", "p", "l", "e", "t", "e">>)
            \/ Contains(status_text, <<"f", "i", "n", "i", "s", "h", "e", "d">>)
            \/ Contains(status_text, <<"s", "u", "c", "c", "e", "s", "s">>)]

\* What a call of an MCP function can do: raise, or return a reply.
McpOutcomes == {[raised |-> TRUE, result |-> <<>>],
                [raised |-> FALSE, result |-> <<"o", "k">>]}

StatusOutcomes ==
    {[raised |-> TRUE, result |-> <<>>]}
    \cup {[raised |-> FALSE, result |-> t] : t \in StatusTexts}

\* One call of an MCP function; `arg` is the index of the search query, 0
\* for the other functions.
McpCall(function, arg, outcome) ==
    [function |-> function, arg |-> arg, raised |-> outcome.raised,
     result |-> outcome.result]

\* results as process_evaluator_with_mcp creates it.
NewMcpResults ==
    [mcp_operations |-> <<>>, search_results |-> <<>>, errors |-> <<>>]

\* results after a prune or cognify call that returned.
OperationSucceeded(res, operation) ==
    [res EXCEPT !.mcp_operations =
        Append(@, [operation |-> operation, success |-> TRUE])]

\* Faulty variant: a failed call recorded in errors only.
OperationFailedUnlogged(res, operation) ==
    [res EXCEPT !.errors = Append(@, [operation |-> operation])]

\* results after a prune or cognify call that raised.
OperationFailed(res, operation) ==
    [res EXCEPT !.errors = Append(@, [operation |-> operation]),
                !.mcp_operations =
                    Append(@, [operation |-> operation, success |-> FALSE])]

\* Faulty variant: the status check logged under the 0-based loop variable.
StatusLoggedZeroBased(res, status_result, att) ==
    [res EXCEPT !.mcp_operations =
        Append(@, [operation |-> "cognify_status", success |-> TRUE,
                   result |-> status_result, attempt |-> att])]

\* results after a status call that returned, in iteration `att` of
\* range(max_wait).
StatusLogged(res, status_result, att) ==
    [res EXCEPT !.mcp_operations =
        Append(@, [operation |-> "cognify_status", success |-> TRUE,
                   result |-> status_result, attempt |-> att + 1])]

\* results after a status call that raised.
StatusFailed(res) ==
    [res EXCEPT !.errors = Append(@, [operation |-> "cognify_status"])]

\* results after the search of the query with index i returned.
SearchSucceeded(res, i, query_data) ==
    [res EXCEPT !.search_results =
                    Append(@, [query_index |-> i,
                               search_type |-> query_data.search_type,
                               success |-> TRUE]),
                !.mcp_operations =
                    Append(@, [operation |-> "search", success |-> TRUE,
                               search_type |-> query_data.search_type])]

\* results after the search of the query with index i raised.
SearchFailed(res, i, query_data) ==
    [res EXCEPT !.errors =
                    Append(@, [operation |-> "search", query_index |-> i]),
                !.mcp_operations =
                    Append(@, [operation |-> "search", success |-> FALSE,
                               search_type |-> query_data.search_type])]

\* results['summary']
McpSummary(res) ==
    [total_operations |-> Len(res.mcp_operations),
     successful_operations |->
         Len(SelectSeq(res.mcp_operations, LAMBDA op : op.success)),
     search_results_count |-> Len(res.search_results),
     errors_count |-> Len(res.errors)]

\* No MCP processing is running.
McpIdle ==
    /\ mcp_pc = "idle"
    /\ knowledge_graph_created = FALSE
    /\ search_queries = <<>>
    /\ use_prune = TRUE
    /\ mcp_functions = {}
    /\ mcp_calls = <<>>
    /\ attempt = 0
    /\ query_index = 0
    /\ mcp_results = NewMcpResults
    /\ mcp_exception = ""

\* An integrator with some functions and an evaluator: one whose
\* _create_knowledge_graph prepared the knowledge text and the queries, or
\* one whose preparation did not run or failed.
McpInit ==
    /\ mcp_pc = "start"
    /\ knowledge_graph_created \in BOOLEAN
    /\ \E n \in 0..MaxQueries :
          search_queries = IF knowledge_graph_created THEN PreparedQueries(n)
                           ELSE <<>>
    /\ use_prune \in BOOLEAN
    /\ mcp_functions \in McpFunctionSets
    /\ mcp_calls = <<>>
    /\ attempt = 0
    /\ query_index = 0
    /\ mcp_results = NewMcpResults
    /\ mcp_exception = ""

\* evaluator.prepare_knowledge_data() is truthy: the text that
\* _create_knowledge_graph stored before it set knowledge_graph_created.
HasKnowledgeData == knowledge_graph_created

\* The check of knowledge_graph_created and the creation of results.
McpStart ==
    /\ mcp_pc = "start"
    /\ IF ~knowledge_graph_created
       THEN mcp_pc' = "raised" /\ mcp_exception' = "ValueError"
       ELSE mcp_pc' = "prune" /\ UNCHANGED mcp_exception
    /\ mcp_results' = NewMcpResults
    /\ UNCHANGED <<knowledge_graph_created, search_queries, use_prune,
                   mcp_functions, mcp_calls, attempt, query_index>>
    /\ UNCHANGED <<eval_vars, cmp_vars, rank_vars>>

\* Step 1: _execute_prune, or nothing.
ExecutePrune ==
    /\ mcp_pc = "prune"
    /\ IF use_prune /\ "prune" \in mcp_functions
       THEN \E outcome \in McpOutcomes :
              /\ mcp_calls' = Append(mcp_calls, McpCall("prune", 0, outcome))
              /\ mcp_results' = IF outcome.raised
                                THEN OperationFailed(mcp_results, "prune")
                                ELSE OperationSucceeded(mcp_results, "prune")
       ELSE UNCHANGED <<mcp_calls, mcp_results>>
    /\ mcp_pc' = "cognify"
    /\ UNCHANGED <<knowledge_graph_created, search_queries, use_prune,
                   mcp_functions, attempt, query_index, mcp_exception>>
    /\ UNCHANGED <<eval_vars, cmp_vars, rank_vars>>

\* Step 2: _execute_cognify, or nothing; the status loop follows a cognify
\* call, failed or not, when a status function is supplied.
ExecuteCognify ==
    /\ mcp_pc = "cognify"
    /\ IF HasKnowledgeData /\ "cognify" \in mcp_functions
       THEN /\ \E outcome \in McpOutcomes :
                 /\ mcp_calls' = Append(mcp_calls, McpCall("cognify", 0, outcome))
                 /\ mcp_results' = IF outcome.raised
                                   THEN OperationFailed(mcp_results, "cognify")
                                   ELSE OperationSucceeded(mcp_results, "cognify")
            /\ mcp_pc' = IF "cognify_status" \in mcp_functions
                         THEN "wait" ELSE "search"
       ELSE /\ mcp_pc' = "search"
            /\ UNCHANGED <<mcp_calls, mcp_results>>
    /\ attempt' = 0
    /\ UNCHANGED <<knowledge_graph_created, search_queries, use_prune,
                   mcp_functions, query_index, mcp_exception>>
    /\ UNCHANGED <<eval_vars, cmp_vars, rank_vars>>

\* One iteration of `for attempt in range(max_wait)`: the status call, its
\* log entry, and the break on a reply that reports completion; a call that
\* raises ends the loop through the except clause.
PollStatus ==
    /\ mcp_pc = "wait"
    /\ attempt < max_wait
    /\ \E outcome \in StatusOutcomes :
          /\ mcp_calls' = Append(mcp_calls, McpCall("cognify_status", 0, outcome))
          /\ IF outcome.raised
             THEN /\ mcp_results' = StatusFailed(mcp_results)
                  /\ mcp_pc' = "search"
                  /\ UNCHANGED attempt
             ELSE /\ mcp_results' =
                        StatusLogged(mcp_results, outcome.result, attempt)
                  /\ IF ReportsCompletion[outcome.result]
                     THEN mcp_pc' = "search" /\ UNCHANGED attempt
                     ELSE mcp_pc' = "wait" /\ attempt' = attempt + 1
    /\ UNCHANGED <<knowledge_graph_created, search_queries, use_prune,
                   mcp_functions, query_index, mcp_exception>>
    /\ UNCHANGED <<eval_vars, cmp_vars, rank_vars>>

\* The else clause of the loop: range(max_wait) is exhausted, a warning is
\* logged and _wait_for_cognify_completion returns.
StatusTimedOut ==
    /\ mcp_pc = "wait"
    /\ attempt = max_wait
    /\ mcp_pc' = "search"
    /\ UNCHANGED <<knowledge_graph_created, search_queries, use_prune,
                   mcp_functions, mcp_calls, attempt, query_index,
                   mcp_results, mcp_exception>>
    /\ UNCHANGED <<eval_vars, cmp_vars, rank_vars>>

\* mcp_queries.get('search_queries') and 'search' in self.mcp_functions
SearchRuns == search_queries # <<>> /\ "search" \in mcp_functions

\* Step 3, one iteration of `for i, query_data in enumerate(search_queries)`.
SearchQuery ==
    /\ mcp_pc = "search"
    /\ SearchRuns
    /\ query_index < Len(search_queries)
    /\ LET query_data == search_queries[query_index + 1]
       IN  \E outcome \in McpOutcomes :
             /\ mcp_calls' = Append(mcp_calls,
                   McpCall("search", query_data.search_query, outcome))
             /\ mcp_results' =
                   IF outcome.raised
                   THEN SearchFailed(mcp_results, query_index, query_data)
                   ELSE SearchSucceeded(mcp_results, query_index, query_data)
    /\ query_index' = query_index + 1
    /\ UNCHANGED <<mcp_pc, knowledge_graph_created, search_queries, use_prune,
                   mcp_functions, attempt, mcp_exception>>
    /\ UNCHANGED <<eval_vars, cmp_vars, rank_vars>>

\* Step 4: the summary, after the search loop or without it, and the
\* return of results.
LogSummary ==
    /\ mcp_pc = "search"
    /\ SearchRuns => query_index = Len(search_queries)
    /\ mcp_results' =
          [k \in DOMAIN mcp_results \cup {"summary"} |->
              IF k = "summary" THEN McpSummary(mcp_results) ELSE mcp_results[k]]
    /\ mcp_pc' = "returned"
    /\ UNCHANGED <<knowledge_graph_created, search_queries, use_prune,
                   mcp_functions, mcp_calls, attempt, query_index,
                   mcp_exception>>
    /\ UNCHANGED <<eval_vars, cmp_vars, rank_vars>>

McpNext ==
    \/ McpStart
    \/ ExecutePrune
    \/ ExecuteCognify
    \/ PollStatus
    \/ StatusTimedOut
    \/ SearchQuery
    \/ LogSummary

(***************************************************************************)
(* Specifications: one evaluation, one pairwise comparison, one ranking,   *)
(* one run of the MCP integrator.                                          *)
(***************************************************************************)
Init == EvalInit /\ CmpIdle /\ RankIdle /\ McpIdle

Next == EvalNext

Spec == Init /\ [][Next]_vars

InitCompare == CmpInit /\ RankIdle /\ McpIdle

NextCompare == CmpNext

SpecCompare == InitCompare /\ [][NextCompare]_vars

InitRanking == RankInit /\ McpIdle

NextRanking == RankNext

SpecRanking == InitRanking /\ [][NextRanking]_vars

InitMcp == EvalIdle(DefaultConfig) /\ CmpIdle /\ RankIdle /\ McpInit

NextMcp == McpNext

SpecMcp == InitMcp /\ [][NextMcp]_vars

\* The event loop resumes the coroutine after every await, and every MCP
\* function it awaits returns or raises.
SpecMcpLive == SpecMcp /\ WF_vars(NextMcp)

(***************************************************************************)
(* Properties of evaluate_prompt.                                          *)
(***************************************************************************)
\* _generate_summary has run.
SummaryMade ==
    \/ pc \in {"save", "returned"}
    \/ pc = "raised" /\ exception = "TypeError"

NonErrorIndices == {k \in 1..Len(responses) : ~responses[k].error}

\* The non-error responses that have a non-empty expected value.
ScoredIndices ==
    {k \in NonErrorIndices :
        responses[k].expected # None /\ responses[k].expected[1] # <<>>}

TrimmedLowerEqual(output, expected) == StripLower[output] = StripLower[expected]

\* C1: overall_status is FAIL if and only if some method's result contains
\* meets_threshold with a false value; a result without the key never makes
\* the status FAIL, and with no failing method the status is PASS.
C1_StatusFailIffSomeThresholdFalse ==
    SummaryMade =>
        LET failing == {k \in 1..Len(results) :
                           /\ "meets_threshold" \in DOMAIN results[k].result
                           /\ results[k].result.meets_threshold.v = FALSE}
        IN  /\ summary.overall_status = "FAIL" <=> failing # {}
            /\ failing = {} => summary.overall_status = "PASS"

\* A PASS although the quality result (no valid score) has no meets_threshold.
C1_Witness ==
    /\ SummaryMade
    /\ summary.overall_status = "PASS"
    /\ HasResult(results, "quality")
    /\ "meets_threshold" \notin DOMAIN ResultOf(results, "quality")
    /\ HasResult(results, "exact_match")

\* C2: the completion service is called exactly once per test case, in
\* input order, and each call appends exactly one record with the case's
\* index as case_id; a failed call gives the error record of that case, is
\* not retried, and the remaining cases are still processed.
C2_OneRecordPerCaseInOrder ==
    /\ Len(calls) = Len(responses)
    /\ Len(responses) <= Len(test_cases)
    /\ \A k \in 1..Len(responses) :
          /\ calls[k].input = test_cases[k].input
          /\ responses[k].case_id = k - 1
          /\ responses[k].input = test_cases[k].input
          /\ responses[k].expected = test_cases[k].expected
          /\ responses[k].error = calls[k].raised
    /\ pc # "generate" => Len(responses) = Len(test_cases)

\* A failed first call followed by a successful second one.
C2_Witness ==
    /\ pc # "generate"
    /\ Len(calls) = 2
    /\ calls[1].raised /\ responses[1].error
    /\ ~calls[2].raised /\ ~responses[2].error

KnownMethods == <<"exact_match", "consistency", "quality", "rouge">>

\* C3: evaluate_prompt never raises, and what it returns has a result for
\* every enabled known method and a summary whose overall_status is PASS or
\* FAIL, whatever completions and gradings failed.
C3_EvaluationAlwaysReturns ==
    /\ pc # "raised"
    /\ exception = ""
    /\ pc = "returned" =>
          /\ \A k \in 1..Len(KnownMethods) :
                Enabled(KnownMethods[k]) => HasResult(results, KnownMethods[k])
          /\ summary.overall_status \in {"PASS", "FAIL"}

\* C4: the exact-match result: errors, total, correct, accuracy and
\* meets_threshold as counted over the response list.
C4_ExactMatchCounts ==
    HasResult(results, "exact_match") =>
        LET r == ResultOf(results, "exact_match")
            errors == Cardinality({k \in 1..Len(responses) : responses[k].error})
            total == Cardinality(ScoredIndices)
            correct == Cardinality({k \in ScoredIndices :
                          TrimmedLowerEqual(responses[k].output,
                                            responses[k].expected[1])})
        IN  /\ r.errors = errors
            /\ r.total = total
            /\ r.correct = correct
            /\ IF total = 0 THEN r.accuracy = <<0, 1>>
                            ELSE RatEq(r.accuracy, <<correct, total>>)
            /\ r.meets_threshold.v =
                  RatGeq(r.accuracy, config.metrics.accuracy_threshold)
            /\ r.correct <= r.total
            /\ r.errors + r.total <= Len(responses)

\* Two answers, Paris matching after trimming and lower-casing and London
\* not: accuracy 0.5, correct 1, total 2, below the default threshold.
C4_Witness ==
    /\ HasResult(results, "exact_match")
    /\ config.metrics = DefaultMetrics
    /\ Len(responses) = 2
    /\ responses[1].output = TxtParisPadded /\ responses[1].expected = Some(TxtparisLower)
    /\ responses[2].output = TxtLondon /\ responses[2].expected = Some(TxtparisLower)
    /\ LET r == ResultOf(results, "exact_match")
       IN  /\ r.accuracy = <<1, 2>> /\ r.correct = 1 /\ r.total = 2
           /\ r.meets_threshold.v = FALSE

\* C5 as stated: accuracy is in [0,1], and it is 1.0 if and only if every
\* non-error response's trimmed, lower-cased output equals its trimmed,
\* lower-cased expected value.
C5_AccuracyOneIffAllNonErrorMatch ==
    HasResult(results, "exact_match") =>
        LET r == ResultOf(results, "exact_match")
        IN  /\ RatGeq(r.accuracy, <<0, 1>>) /\ RatGeq(<<1, 1>>, r.accuracy)
            /\ RatEq(r.accuracy, <<1, 1>>) <=>
                  \A k \in NonErrorIndices :
                      /\ responses[k].expected # None
                      /\ TrimmedLowerEqual(responses[k].output,
                                           responses[k].expected[1])

\* C5 amended: accuracy is in [0,1], and it is 1.0 if and only if at least
\* one non-error response has a non-empty expected value and every such
\* response's trimmed, lower-cased output equals its trimmed, lower-cased
\* expected value.
C5_AccuracyOneIffScoredNonEmptyAndAllMatch ==
    HasResult(results, "exact_match") =>
        LET r == ResultOf(results, "exact_match")
        IN  /\ RatGeq(r.accuracy, <<0, 1>>) /\ RatGeq(<<1, 1>>, r.accuracy)
            /\ RatEq(r.accuracy, <<1, 1>>) <=>
                  /\ ScoredIndices # {}
                  /\ \A k \in ScoredIndices :
                        TrimmedLowerEqual(responses[k].output,
                                          responses[k].expected[1])

\* Accuracy 1.0 although one non-error response has no expected value.
C5_Witness ==
    /\ HasResult(results, "exact_match")
    /\ ResultOf(results, "exact_match").accuracy = <<1, 1>>
    /\ \E k \in NonErrorIndices : responses[k].expected = None

\* The unordered pairs of positions 1..n.
UnorderedPairs(n) == {p \in (1..n) \X (1..n) : p[1] < p[2]}

\* The sum of the similarities of the outputs at the given pairs of positions.
RECURSIVE PairSimilaritySum(_, _)
PairSimilaritySum(outputs, pairs) ==
    IF pairs = {} THEN <<0, 1>>
    ELSE LET p == CHOOSE q \in pairs : TRUE
         IN  RatAdd(OutputSimilarity[outputs[p[1]], outputs[p[2]]],
                    PairSimilaritySum(outputs, pairs \ {p}))

ValidGrade(outcome) ==
    /\ ~outcome.raised
    /\ ParsedGrade[outcome.text].ok
    /\ ParsedGrade[outcome.text].value \in 1..5

ValidGrades == SelectSeq(grades, LAMBDA g : ValidGrade(g.outcome))

\* The mean of the given valid gradings' scores, 0 if there is none.
ValidScoreMean(valid) ==
    IF valid = <<>> THEN <<0, 1>>
    ELSE <<SumSeq([k \in 1..Len(valid) |-> ParsedGrade[valid[k].outcome.text].value]),
           Len(valid)>>

\* C7 as stated: average_quality is the mean of the valid scores, 0 if
\* there is none, and the result carries
\* meets_threshold = (average_quality >= quality_threshold).
C7_QualityAlwaysCarriesThreshold ==
    HasResult(results, "quality") =>
        LET r == ResultOf(results, "quality")
        IN  /\ RatEq(r.average_quality, ValidScoreMean(ValidGrades))
            /\ "meets_threshold" \in DOMAIN r
            /\ r.meets_threshold.v =
                  RatGeq(r.average_quality, config.metrics.quality_threshold)

\* C7 amended: average_quality is the mean of the valid scores, 0 if there
\* is none; with at least one valid score the result carries
\* meets_threshold = (average_quality >= quality_threshold), and with none
\* it has no meets_threshold key.
C7_QualityMeanAndThresholdWhenScored ==
    HasResult(results, "quality") =>
        LET r == ResultOf(results, "quality")
            valid == ValidGrades
        IN  /\ RatEq(r.average_quality, ValidScoreMean(valid))
            /\ IF valid # <<>>
               THEN /\ "meets_threshold" \in DOMAIN r
                    /\ r.meets_threshold.v =
                          RatGeq(r.average_quality,
                                 config.metrics.quality_threshold)
               ELSE "meets_threshold" \notin DOMAIN r

\* A valid score that meets the threshold is kept and the out-of-range
\* answer "6" of another grading is discarded.
C7_Witness ==
    /\ HasResult(results, "quality")
    /\ Len(ValidGrades) < Len(grades)
    /\ Len(ValidGrades) >= 1
    /\ ResultOf(results, "quality").meets_threshold.v
    /\ \E k \in 1..Len(grades) : grades[k].outcome.text = <<"6">>

\* results without its "rouge" entry.
WithoutRouge(res) == SelectSeq(res, LAMBDA e : e.method # "rouge")

\* C8: the ROUGE result has no meets_threshold, and with 'rouge' enabled
\* overall_status, failed_criteria and recommendations are what the other
\* methods' results alone give.
C8_RougeLeavesSummaryUnchanged ==
    /\ HasResult(results, "rouge") =>
          "meets_threshold" \notin DOMAIN ResultOf(results, "rouge")
    /\ (SummaryMade /\ Enabled("rouge")) =>
          /\ HasResult(results, "rouge")
          /\ summary = generate_summary(WithoutRouge(results))
          /\ ~InList("rouge", summary.failed_criteria)

\* A PASS with 'rouge' enabled and a ROUGE-2 average of 0 over scored cases.
C8_Witness ==
    /\ SummaryMade
    /\ Enabled("rouge")
    /\ ResultOf(results, "rouge").total_evaluated > 0
    /\ ResultOf(results, "rouge").avg_rouge2 = <<0, 1>>
    /\ summary.overall_status = "PASS"

RecommendationOf(method) ==
    CASE method = "exact_match" -> "Improve prompt clarity and specificity"
      [] method = "consistency" -> "Add examples to improve output consistency"
      [] method = "quality" -> "Enhance prompt with better context and instructions"
      [] OTHER -> ""

\* C9: results is filled in the order exact_match, consistency, quality,
\* rouge whatever the configured order; failed_criteria lists exactly the
\* methods whose meets_threshold is false, in that order; recommendations
\* holds one string per failed method, so both have the same length.
C9_FailedCriteriaAndRecommendations ==
    SummaryMade =>
        LET order == SelectSeq(KnownMethods, LAMBDA m : Enabled(m))
            failed == SelectSeq(order, LAMBDA m :
                          /\ "meets_threshold" \in DOMAIN ResultOf(results, m)
                          /\ ~ResultOf(results, m).meets_threshold.v)
        IN  /\ [k \in 1..Len(results) |-> results[k].method] = order
            /\ summary.failed_criteria = failed
            /\ Len(summary.recommendations) = Len(summary.failed_criteria)
            /\ summary.recommendations =
                  [k \in 1..Len(failed) |-> RecommendationOf(failed[k])]

\* Methods configured in reverse order, exact_match and quality failed and
\* consistency without a threshold claim.
C9_Witness ==
    /\ SummaryMade
    /\ config.evaluation_methods = <<"rouge", "quality", "consistency", "exact_match">>
    /\ summary.failed_criteria = <<"exact_match", "quality">>
    /\ "meets_threshold" \notin DOMAIN ResultOf(results, "consistency")

(***************************************************************************)
(* Properties of _compare_two_prompts.                                     *)
(***************************************************************************)
HasMetric(cmp, metric) ==
    \E k \in 1..Len(cmp.metrics_comparison) : cmp.metrics_comparison[k].metric = metric

DetailOf(cmp, metric) ==
    cmp.metrics_comparison[
        CHOOSE k \in 1..Len(cmp.metrics_comparison) :
            cmp.metrics_comparison[k].metric = metric].detail

\* The value of a tested metric in a prompt's metrics.
TestedValue(metrics, metric) ==
    IF metric = "accuracy" THEN metrics.accuracy
    ELSE <<SumSeq(metrics.quality_scores), Len(metrics.quality_scores)>>

\* C10: for accuracy and for quality, statistically_significant is
\* (p_value < significance_level), the metric is in significant_differences
\* iff it is significant, and the winner is the variant with the strictly
\* higher value if the difference is significant and 'tie' otherwise.
C10_WinnerGatedBySignificance ==
    \A metric \in {"accuracy", "quality"} :
        HasMetric(comparison, metric) =>
            LET d == DetailOf(comparison, metric)
                a == TestedValue(metrics_a, metric)
                b == TestedValue(metrics_b, metric)
                significant == ~d.p_value.nan /\ RatLt(d.p_value.val, <<5, 100>>)
            IN  /\ RatEq(d.prompt_a_value, a) /\ RatEq(d.prompt_b_value, b)
                /\ d.statistically_significant = significant
                /\ InList(metric, comparison.significant_differences) <=> significant
                /\ d.winner \in {"prompt_1", "prompt_2", "tie"}
                /\ d.winner = "prompt_1" <=> (significant /\ RatGt(a, b))
                /\ d.winner = "prompt_2" <=> (significant /\ RatGt(b, a))
                /\ d.winner # "tie" => significant /\ ~RatEq(a, b)

\* Accuracy significantly won by the second prompt, and quality a tie at
\* p = 0.05 although the first prompt's mean is higher.
C10_Witness ==
    /\ cmp_pc = "done"
    /\ HasMetric(comparison, "accuracy")
    /\ DetailOf(comparison, "accuracy").winner = "prompt_2"
    /\ HasMetric(comparison, "quality")
    /\ DetailOf(comparison, "quality").p_value = PValue(<<5, 100>>)
    /\ DetailOf(comparison, "quality").winner = "tie"
    /\ RatGt(DetailOf(comparison, "quality").prompt_a_value,
             DetailOf(comparison, "quality").prompt_b_value)
    /\ comparison.significant_differences = <<"accuracy">>

\* The call has returned its comparison.
CmpDone == cmp_pc = "done"

PromptIds == {"prompt_1", "prompt_2"}

BothHave(key) == key \in DOMAIN metrics_a /\ key \in DOMAIN metrics_b

\* C11: when the accuracy test runs on a contingency table with a zero row
\* or column, the returned comparison has no accuracy entry and no accuracy
\* in significant_differences, the quality and consistency entries are there
\* whenever their blocks apply, and overall_winner is a prompt or 'tie'.
C11_FailedChiSquareOmitsAccuracyOnly ==
    (/\ CmpDone
     /\ BothHave("accuracy") /\ BothHave("correct_count") /\ BothHave("total_count")
     /\ LET t == ContingencyTable(metrics_a, metrics_b)
        IN  \/ t[1][1] + t[1][2] = 0 \/ t[2][1] + t[2][2] = 0
            \/ t[1][1] + t[2][1] = 0 \/ t[1][2] + t[2][2] = 0)
    => /\ ~HasMetric(comparison, "accuracy")
       /\ ~InList("accuracy", comparison.significant_differences)
       /\ (BothHave("quality_scores")
             /\ metrics_a.quality_scores # <<>> /\ metrics_b.quality_scores # <<>>)
          => HasMetric(comparison, "quality")
       /\ BothHave("consistency_score") => HasMetric(comparison, "consistency")
       /\ comparison.overall_winner \in PromptIds \cup {"tie"}

\* Both prompts answered every case right (no wrong answers: a zero column)
\* and the quality vote alone names the first prompt.
C11_Witness ==
    /\ CmpDone
    /\ BothHave("accuracy")
    /\ metrics_a.total_count = 2 /\ metrics_a.correct_count = 2
    /\ metrics_b.total_count = 2 /\ metrics_b.correct_count = 2
    /\ ~HasMetric(comparison, "accuracy")
    /\ HasMetric(comparison, "quality")
    /\ HasMetric(comparison, "consistency")
    /\ comparison.overall_winner = "prompt_1"

\* C12: when both quality_scores lists have zero variance (two or more equal
\* scores each), the returned comparison has no 'quality' entry.
C12_ZeroVarianceQualityOmitted ==
    (/\ CmpDone
     /\ BothHave("quality_scores")
     /\ Len(metrics_a.quality_scores) >= 2 /\ Len(metrics_b.quality_scores) >= 2
     /\ \A k \in 1..Len(metrics_a.quality_scores) :
           metrics_a.quality_scores[k] = metrics_a.quality_scores[1]
     /\ \A k \in 1..Len(metrics_b.quality_scores) :
           metrics_b.quality_scores[k] = metrics_b.quality_scores[1])
    => ~HasMetric(comparison, "quality")

\* The non-tie winner fields of the accuracy and quality entries.
TestedWinners ==
    {DetailOf(comparison, metric).winner :
        metric \in {m \in {"accuracy", "quality"} :
                      /\ HasMetric(comparison, m)
                      /\ DetailOf(comparison, m).winner # "tie"}}

\* C13: the consistency entry has descriptive_winner (the prompt with the
\* larger score, 'tie' when equal) and neither winner nor p_value,
\* 'consistency' is never in significant_differences, and overall_winner is
\* decided by the accuracy and quality winners alone.
C13_ConsistencyDescriptiveOnly ==
    HasMetric(comparison, "consistency") =>
        LET d == DetailOf(comparison, "consistency")
            a == metrics_a.consistency_score
            b == metrics_b.consistency_score
        IN  /\ DOMAIN d = {"prompt_a_value", "prompt_b_value", "difference",
                           "descriptive_winner"}
            /\ d.descriptive_winner =
                  IF RatGt(b, a) THEN "prompt_2"
                  ELSE IF RatGt(a, b) THEN "prompt_1" ELSE "tie"
            /\ ~InList("consistency", comparison.significant_differences)
            /\ CmpDone =>
                  IF TestedWinners = {} THEN comparison.overall_winner = "tie"
                  ELSE comparison.overall_winner \in TestedWinners

\* The second prompt is the more consistent one and the first prompt wins
\* overall; and a comparison whose only non-tie verdict is the descriptive
\* one is covered by the states with overall_winner 'tie'.
C13_Witness ==
    /\ CmpDone
    /\ HasMetric(comparison, "consistency")
    /\ DetailOf(comparison, "consistency").descriptive_winner = "prompt_2"
    /\ comparison.overall_winner = "prompt_1"

\* C14: when accuracy is significantly won by one prompt and quality by the
\* other, overall_winner is 'tie'.
C14_SplitVoteIsTie ==
    (/\ CmpDone
     /\ HasMetric(comparison, "accuracy") /\ HasMetric(comparison, "quality")
     /\ DetailOf(comparison, "accuracy").winner \in PromptIds
     /\ DetailOf(comparison, "quality").winner \in PromptIds
     /\ DetailOf(comparison, "accuracy").winner # DetailOf(comparison, "quality").winner)
    => comparison.overall_winner = "tie"

SetOf(list) == {list[k] : k \in 1..Len(list)}

\* C15: the comparison of (A, B) and the comparison of (B, A), their tests
\* giving the same p-values, have the same entries, the same p_value and the
\* same winner per metric, the same set of significant differences and the
\* same overall_winner.
C15_SymmetricUnderSwap ==
    /\ mirror.prompt_a = comparison.prompt_b /\ mirror.prompt_b = comparison.prompt_a
    /\ comparison.overall_winner = mirror.overall_winner
    /\ SetOf(comparison.significant_differences) = SetOf(mirror.significant_differences)
    /\ \A metric \in {"accuracy", "quality", "consistency"} :
          /\ HasMetric(comparison, metric) <=> HasMetric(mirror, metric)
          /\ HasMetric(comparison, metric) =>
                LET d == DetailOf(comparison, metric)
                    m == DetailOf(mirror, metric)
                IN  /\ RatEq(d.prompt_a_value, m.prompt_b_value)
                    /\ RatEq(d.prompt_b_value, m.prompt_a_value)
                    /\ IF metric = "consistency"
                       THEN d.descriptive_winner = m.descriptive_winner
                       ELSE /\ d.p_value = m.p_value
                            /\ d.statistically_significant = m.statistically_significant
                            /\ d.winner = m.winner

\* A split vote: accuracy significantly won by the second prompt, quality by
\* the first, in both argument orders.
C15_Witness ==
    /\ CmpDone
    /\ HasMetric(comparison, "accuracy") /\ HasMetric(mirror, "accuracy")
    /\ HasMetric(comparison, "quality") /\ HasMetric(mirror, "quality")
    /\ DetailOf(comparison, "accuracy").winner = "prompt_2"
    /\ DetailOf(comparison, "quality").winner = "prompt_1"
    /\ mirror.prompt_a = "prompt_2"
    /\ mirror.overall_winner = "prompt_2"

\* A tested metric of the comparison is significant.
SomeSignificant ==
    \E metric \in {"accuracy", "quality"} :
        /\ HasMetric(comparison, metric)
        /\ DetailOf(comparison, metric).statistically_significant

\* C16: overall_winner is a prompt or 'tie'; without a significant metric it
\* is 'tie' and significant_differences is empty; it names a prompt only if
\* significant_differences is not empty.
C16_NoSignificanceNoWinner ==
    CmpDone =>
        /\ comparison.overall_winner \in PromptIds \cup {"tie"}
        /\ ~SomeSignificant =>
              /\ comparison.overall_winner = "tie"
              /\ comparison.significant_differences = <<>>
        /\ comparison.overall_winner \in PromptIds =>
              comparison.significant_differences # <<>>

\* Only accuracy is compared, the accuracies differ, the difference is not
\* significant.
C16_Witness ==
    /\ CmpDone
    /\ HasMetric(comparison, "accuracy")
    /\ ~HasMetric(comparison, "quality") /\ ~HasMetric(comparison, "consistency")
    /\ ~RatEq(metrics_a.accuracy, metrics_b.accuracy)
    /\ ~DetailOf(comparison, "accuracy").statistically_significant
    /\ comparison.overall_winner = "tie"
    /\ comparison.significant_differences = <<>>

(***************************************************************************)
(* Properties of the ranking of _perform_statistical_comparison.           *)
(***************************************************************************)
\* Every prompt has its composite score.
Scored == rank_pc \in {"sort", "done"}

RankDone == rank_pc \in {"done", "recommended"}

\* The weighted mean of the given [weight, value] terms, weights in tenths;
\* 0 without terms.
WeightedMean(terms) ==
    LET weights == SumSeq([k \in 1..Len(terms) |-> terms[k].weight])
        total == RatSum([k \in 1..Len(terms) |->
                            RatMul(<<terms[k].weight, 10>>, terms[k].value)])
    IN  IF weights = 0 THEN <<0, 1>> ELSE RatDiv(total, <<weights, 10>>)

Term(present, weight, value) ==
    IF present THEN <<[weight |-> weight, value |-> value]>> ELSE <<>>

\* C17: every composite score is 0.4*accuracy + 0.3*consistency_score +
\* 0.3*(average_quality/5) over the metrics present in the prompt's metric
\* dictionary, divided by the sum of the weights of those metrics, and 0
\* when none is present.
C17_CompositeOverPresentMetrics ==
    Scored =>
        /\ Len(ranking_scores) = Len(prompt_metrics)
        /\ \A k \in 1..Len(ranking_scores) :
              LET m == prompt_metrics[k].metrics
                  terms ==
                      Term("accuracy" \in DOMAIN m, 4, m.accuracy)
                      \o Term("consistency_score" \in DOMAIN m, 3, m.consistency_score)
                      \o Term("average_quality" \in DOMAIN m, 3,
                              <<m.average_quality[1], m.average_quality[2] * 5>>)
              IN  /\ ranking_scores[k].prompt_id = prompt_metrics[k].prompt_id
                  /\ RatEq(ranking_scores[k].score, WeightedMean(terms))

\* The first prompt has accuracy 1 and consistency 1 and no quality metric:
\* its score is 0.7 / 0.7; the second has accuracy 1/2.
C17_Witness ==
    /\ RankDone
    /\ DOMAIN prompt_metrics[1].metrics =
          {"accuracy", "correct_count", "total_count", "consistency_score"}
    /\ ranking_scores[1].score = <<1, 1>>
    /\ prompt_metrics[2].metrics.accuracy = <<1, 2>>
    /\ RatLt(ranking_scores[2].score, <<1, 2>>)

\* The method was evaluated and gave a score (not the note that stands for
\* "no valid score" or "too few responses").
GaveScore(eval_results, method) ==
    /\ HasResult(eval_results, method)
    /\ "note" \notin DOMAIN ResultOf(eval_results, method)

\* C18: the composite score of a prompt uses the weights of the metrics the
\* prompt has a score for, renormalized: a quality evaluation without a
\* valid score, or a consistency that could not be computed, does not enter
\* as a zero.
C18_MissingMetricNotDiluted ==
    RankDone =>
        \A k \in 1..Len(ranking_scores) :
            LET r == rank_results[k].results
                terms ==
                    (IF HasResult(r, "exact_match")
                     THEN Term(TRUE, 4, ResultOf(r, "exact_match").accuracy) ELSE <<>>)
                    \o (IF GaveScore(r, "consistency")
                        THEN Term(TRUE, 3, ResultOf(r, "consistency").consistency_score)
                        ELSE <<>>)
                    \o (IF GaveScore(r, "quality")
                        THEN LET q == ResultOf(r, "quality").average_quality
                             IN  Term(TRUE, 3, <<q[1], q[2] * 5>>)
                        ELSE <<>>)
            IN  RatEq(ranking_scores[k].score, WeightedMean(terms))

\* C19: every composite score of overall_ranking lies in [0, 1].
C19_CompositeInUnitInterval ==
    \A k \in 1..Len(overall_ranking) :
        /\ RatGeq(overall_ranking[k].score, <<0, 1>>)
        /\ RatGeq(<<1, 1>>, overall_ranking[k].score)

\* The position of a prompt in the input.
InputIndex(prompt_id) ==
    CHOOSE k \in 1..Len(rank_results) : rank_results[k].prompt_id = prompt_id

\* C20: overall_ranking holds every evaluated prompt exactly once with its
\* composite score, from the highest score to the lowest, prompts of equal
\* score in input order.
C20_RankingSortedStable ==
    RankDone =>
        /\ Len(overall_ranking) = Len(rank_results)
        /\ \A k \in 1..Len(rank_results) :
              Cardinality({i \in 1..Len(overall_ranking) :
                              overall_ranking[i].prompt_id = rank_results[k].prompt_id}) = 1
        /\ \A i \in 1..Len(overall_ranking) :
              overall_ranking[i] = ranking_scores[InputIndex(overall_ranking[i].prompt_id)]
        /\ \A i, j \in 1..Len(overall_ranking) :
              i < j =>
                  /\ RatGeq(overall_ranking[i].score, overall_ranking[j].score)
                  /\ RatEq(overall_ranking[i].score, overall_ranking[j].score) =>
                        InputIndex(overall_ranking[i].prompt_id)
                            < InputIndex(overall_ranking[j].prompt_id)

\* Two prompts with different metrics and the same positive score, ranked in
\* input order.
C20_Witness ==
    /\ RankDone
    /\ prompt_metrics[1].metrics # prompt_metrics[2].metrics
    /\ RatGt(ranking_scores[1].score, <<0, 1>>)
    /\ RatEq(ranking_scores[1].score, ranking_scores[2].score)
    /\ overall_ranking[1].prompt_id = "prompt_1"
    /\ overall_ranking[2].prompt_id = "prompt_2"

(***************************************************************************)
(* Properties of _generate_recommendation.                                 *)
(***************************************************************************)
Recommended == rank_pc = "recommended"

\* The composite score of rank 1 minus that of rank 2.
ScoreGap == RatSub(overall_ranking[1].score, overall_ranking[2].score)

\* The comparisons of the recommended prompt that it won with a significant
\* difference.
SignificantWins ==
    {k \in 1..Len(pairwise_comparisons) :
        /\ pairwise_comparisons[k].comparison.overall_winner
              = recommendation.recommended_prompt
        /\ pairwise_comparisons[k].comparison.significant_differences # <<>>}

\* C21: with a gap between rank 1 and rank 2 below 0.05 the confidence is
\* 'low' and a note is attached, whatever was found significant; with a gap
\* of 0.05 or more there is no note and the confidence is not 'low'.
C21_CloseGapGivesLowConfidence ==
    Recommended =>
        IF RatLt(ScoreGap, <<1, 20>>)
        THEN /\ recommendation.confidence = "low"
             /\ "note" \in DOMAIN recommendation
        ELSE /\ recommendation.confidence \in {"high", "medium"}
             /\ "note" \notin DOMAIN recommendation

\* The best prompt won its comparison with a significant accuracy
\* difference, and its score is only 0.02 above the runner-up's.
C21_Witness ==
    /\ Recommended
    /\ RatGt(ScoreGap, <<0, 1>>) /\ RatLt(ScoreGap, <<1, 20>>)
    /\ SignificantWins # {}
    /\ recommendation.significant_improvements = {"accuracy"}
    /\ recommendation.confidence = "low"

\* C22: the recommendation names the top-ranked prompt and the second-ranked
\* one as runner_up; with a gap of at least 0.05 the confidence is 'high' if
\* the recommended prompt is the overall_winner of a comparison with a
\* non-empty significant_differences, and 'medium' if not.
C22_ConfidenceHighIffSignificantWin ==
    Recommended =>
        /\ recommendation.recommended_prompt = overall_ranking[1].prompt_id
        /\ recommendation.ranking_score = overall_ranking[1].score
        /\ recommendation.runner_up = overall_ranking[2].prompt_id
        /\ RatGeq(ScoreGap, <<1, 20>>) =>
              recommendation.confidence =
                  IF SignificantWins # {} THEN "high" ELSE "medium"

\* The second prompt is ranked first by a clear gap; the only significant
\* difference belongs to a comparison the first prompt won: 'medium'.
C22_Witness ==
    /\ Recommended
    /\ RatGeq(ScoreGap, <<1, 20>>)
    /\ recommendation.recommended_prompt = "prompt_2"
    /\ recommendation.runner_up = "prompt_1"
    /\ pairwise_comparisons[1].comparison.overall_winner = "prompt_1"
    /\ pairwise_comparisons[1].comparison.significant_differences # <<>>
    /\ recommendation.confidence = "medium"

\* The recommended prompt is the winner of the metric in the comparison.
WinsMetric(cmp, metric) ==
    /\ HasMetric(cmp, metric)
    /\ "winner" \in DOMAIN DetailOf(cmp, metric)
    /\ DetailOf(cmp, metric).winner = recommendation.recommended_prompt

\* C26: every metric of significant_improvements is a metric the recommended
\* prompt won in at least one pairwise comparison.
C26_ImprovementsAreWonMetrics ==
    Recommended =>
        \A metric \in recommendation.significant_improvements :
            \E k \in 1..Len(pairwise_comparisons) :
                WinsMetric(pairwise_comparisons[k].comparison, metric)


(***************************************************************************)
(* Properties of the evaluators as functions of the response list.         *)
(***************************************************************************)
\* The scores of the valid gradings, in the order the gradings were made.
ValidScores ==
    [k \in 1..Len(ValidGrades) |-> ParsedGrade[ValidGrades[k].outcome.text].value]

\* What the evaluator of `method` returns for the response list resps; for
\* quality, for the gradings that were made.
EvaluatorResult(method, resps) ==
    CASE method = "exact_match" -> evaluate_exact_match(resps, config)
      [] method = "consistency" -> evaluate_consistency(resps, config)
      [] method = "quality" -> QualityResult(ValidScores, config)
      [] method = "rouge" -> evaluate_rouge(resps)

\* The stored results, each computed again from resps.
Recomputed(resps) ==
    [k \in 1..Len(results) |->
        [method |-> results[k].method,
         result |-> EvaluatorResult(results[k].method, resps)]]

ErrorMasks ==
    {[output |-> TxtParisPadded, expected |-> Some(TxtparisLower)],
     [output |-> TxtLondon, expected |-> None]}

\* resps with the output and expected text of its error records replaced.
Masked(resps, mask) ==
    [k \in 1..Len(resps) |->
        IF resps[k].error
        THEN [resps[k] EXCEPT !.output = mask.output,
                              !.expected = mask.expected]
        ELSE resps[k]]

\* C24: a response list that differs only in the output or expected text
\* of the error records gives the same exact-match, consistency, quality
\* and ROUGE results and the same summary; no grading call is made for an
\* error record; the error records are counted in the exact-match errors
\* field and in no other result.
C24_ErrorRecordsExcluded ==
    /\ \A resps \in {Masked(responses, mask) : mask \in ErrorMasks} :
          LET other == Recomputed(resps)
          IN  /\ results = other
              /\ SummaryMade => summary = generate_summary(other)
    /\ \A k \in 1..Len(grades) : ~responses[grades[k].case_id + 1].error
    /\ \A k \in 1..Len(results) :
          IF results[k].method = "exact_match"
          THEN results[k].result.errors =
                  Len(responses) - Cardinality(NonErrorIndices)
          ELSE "errors" \notin DOMAIN results[k].result
    /\ HasResult(results, "consistency") =>
          LET n == Cardinality(NonErrorIndices)
              r == ResultOf(results, "consistency")
          IN  IF n < 2 THEN "total_comparisons" \notin DOMAIN r
              ELSE 2 * r.total_comparisons = n * (n - 1)
    /\ HasResult(results, "quality") =>
          Len(grades) = Cardinality(NonErrorIndices)
    /\ HasResult(results, "rouge") =>
          ResultOf(results, "rouge").total_evaluated = Cardinality(ScoredIndices)

\* All four methods have run on a list whose error record has an expected
\* value, next to a record that was graded.
C24_Witness ==
    /\ SummaryMade
    /\ Len(results) = 4
    /\ \E k \in 1..Len(responses) :
          responses[k].error /\ responses[k].expected = Some(TxtparisLower)
    /\ Len(grades) = 1

\* C25: an evaluation in which every completion failed never reports
\* overall_status PASS, whatever methods are enabled.
C25_AllFailedNeverPass ==
    (/\ SummaryMade
     /\ responses # <<>>
     /\ \A k \in 1..Len(responses) : responses[k].error)
    => summary.overall_status # "PASS"

ThresholdKeys ==
    {"accuracy_threshold", "consistency_threshold", "quality_threshold"}

\* The user file sets the threshold `key`.
UserSets(key) ==
    /\ "metrics" \in DOMAIN user_config
    /\ key \in DOMAIN user_config.metrics

\* C27: the configuration holds all three thresholds, every threshold the
\* user file does not set has its default value, and no evaluator fails to
\* read its threshold.
C27_UnsetThresholdsKeepDefaults ==
    /\ \A key \in ThresholdKeys :
          /\ key \in DOMAIN config.metrics
          /\ ~UserSets(key) => config.metrics[key] = DefaultMetrics[key]
    /\ exception # "KeyError"

(***************************************************************************)
(* Properties of process_evaluator_with_mcp.                               *)
(***************************************************************************)
\* The positions of the calls of `function` in mcp_calls.
CallsOf(function) ==
    {i \in 1..Len(mcp_calls) : mcp_calls[i].function = function}

\* The call at position i is a status call that reported completion.
CompletionReported(i) ==
    /\ mcp_calls[i].function = "cognify_status"
    /\ ~mcp_calls[i].raised
    /\ ReportsCompletion[mcp_calls[i].result]

\* The place of a function in the order prune, cognify, status, search.
StepOf(function) ==
    CASE function = "prune" -> 1
      [] function = "cognify" -> 2
      [] function = "cognify_status" -> 3
      [] function = "search" -> 4

\* The calls are made in the order prune, cognify, status polls, searches,
\* the searches in query order.
CallsInStepOrder ==
    /\ \A i, j \in 1..Len(mcp_calls) :
          i < j => StepOf(mcp_calls[i].function) <= StepOf(mcp_calls[j].function)
    /\ \A i, j \in CallsOf("search") :
          i < j => mcp_calls[i].arg < mcp_calls[j].arg

\* C28: with cognify and cognify_status supplied, no search is issued
\* before the cognify call was made and a status poll reported completion;
\* the calls are made in the order prune, cognify, status polls, searches
\* in query order.
C28_SearchOnlyAfterCompletion ==
    /\ {"cognify", "cognify_status"} \subseteq mcp_functions =>
          \A i \in CallsOf("search") :
              /\ \E j \in CallsOf("cognify") : j < i
              /\ \E j \in 1..(i - 1) : CompletionReported(j)
    /\ CallsInStepOrder

McpReturned == mcp_pc = "returned"

\* The entries of `entries` for `operation`.
EntriesOf(entries, operation) ==
    SelectSeq(entries, LAMBDA e : e.operation = operation)

\* The number of calls of `function` that raised.
RaisedCalls(function) ==
    Cardinality({i \in CallsOf(function) : mcp_calls[i].raised})

\* Every failed prune, cognify or search call has one errors entry and one
\* mcp_operations entry with success false, and every call that returned
\* has one entry with success true.
FailuresRecordedOnce ==
    \A function \in {"prune", "cognify", "search"} :
        LET ops == EntriesOf(mcp_results.mcp_operations, function)
        IN  /\ Len(EntriesOf(mcp_results.errors, function)) = RaisedCalls(function)
            /\ Len(SelectSeq(ops, LAMBDA op : ~op.success)) = RaisedCalls(function)
            /\ Len(ops) = Cardinality(CallsOf(function))

\* After the run every step whose function is supplied was taken, whatever
\* failed before it.
LaterStepsTaken ==
    McpReturned =>
        /\ (use_prune /\ "prune" \in mcp_functions) =>
               Cardinality(CallsOf("prune")) = 1
        /\ "cognify" \in mcp_functions => Cardinality(CallsOf("cognify")) = 1
        /\ {"cognify", "cognify_status"} \subseteq mcp_functions =>
               CallsOf("cognify_status") # {}
        /\ "search" \in mcp_functions =>
               Cardinality(CallsOf("search")) = Len(search_queries)

\* Every prepared query has one mcp_operations entry, in query order, and
\* the successful and the failed searches add up to the prepared queries.
EveryQuerySearched ==
    LET ops == EntriesOf(mcp_results.mcp_operations, "search")
    IN  /\ Len(ops) = Len(search_queries)
        /\ Len(mcp_results.search_results) + Len(EntriesOf(mcp_results.errors, "search"))
              = Len(search_queries)
        /\ \A k \in 1..Len(mcp_results.search_results) :
              mcp_results.search_results[k].query_index < Len(search_queries)

\* A run that is refused raises ValueError before any MCP call, and only a
\* run on an evaluator without prepared knowledge graph is refused.
RefusedBeforeAnyCall ==
    /\ mcp_pc = "raised" <=> (mcp_pc # "start" /\ ~knowledge_graph_created)
    /\ mcp_pc = "raised" =>
          /\ mcp_exception = "ValueError"
          /\ mcp_calls = <<>>
          /\ mcp_results = NewMcpResults

SummaryCountsOperations ==
    McpReturned =>
        mcp_results.summary.total_operations = Len(mcp_results.mcp_operations)

\* C29 as stated: a refused run raises before any MCP call; every failed
\* prune, cognify or search call is recorded as one errors entry and one
\* mcp_operations entry with success false and prevents no later step;
\* after the run every prepared query has one mcp_operations entry, and
\* summary.total_operations is the length of mcp_operations.
C29_EveryPreparedQueryLogged ==
    /\ RefusedBeforeAnyCall
    /\ FailuresRecordedOnce
    /\ LaterStepsTaken
    /\ McpReturned => EveryQuerySearched
    /\ SummaryCountsOperations

\* C29 amended: the same, the entries of the prepared queries being there
\* when a search function is supplied; without one no query is searched
\* and none has an entry.
C29_FailuresRecordedAndRunCompletes ==
    /\ RefusedBeforeAnyCall
    /\ FailuresRecordedOnce
    /\ LaterStepsTaken
    /\ McpReturned =>
          IF "search" \in mcp_functions
          THEN EveryQuerySearched
          ELSE /\ EntriesOf(mcp_results.mcp_operations, "search") = <<>>
               /\ mcp_results.search_results = <<>>
    /\ SummaryCountsOperations

\* A run in which prune, cognify and the first search failed and the
\* second search succeeded.
C29_Witness ==
    /\ McpReturned
    /\ RaisedCalls("prune") = 1
    /\ RaisedCalls("cognify") = 1
    /\ Len(search_queries) = 2
    /\ Len(mcp_results.search_results) = 1
    /\ mcp_results.search_results[1].query_index = 1
    /\ mcp_results.summary.total_operations >= 4

\* The status loop has been left.
WaitOver == mcp_pc \in {"search", "returned"} /\ CallsOf("cognify_status") # {}

\* What _wait_for_cognify_completion does in every state: at most max_wait
\* status calls; a call that reported completion or raised is the last
\* one; a call that raised leaves one errors entry and no operation; the
\* calls that returned are logged with the attempt numbers 1, 2, ...; the
\* loop is left after a completion, a raise, or max_wait calls, and without
\* an exception.
WaitLoopBounded ==
    LET polls == CallsOf("cognify_status")
        logged == EntriesOf(mcp_results.mcp_operations, "cognify_status")
        failed == {i \in polls : mcp_calls[i].raised}
    IN  /\ Cardinality(polls) <= max_wait
        /\ \A i \in polls :
              (mcp_calls[i].raised \/ CompletionReported(i)) =>
                  \A j \in polls : j <= i
        /\ Len(EntriesOf(mcp_results.errors, "cognify_status")) = Cardinality(failed)
        /\ Cardinality(failed) <= 1
        /\ Len(logged) = Cardinality(polls \ failed)
        /\ \A k \in 1..Len(logged) :
              /\ logged[k].attempt = k
              /\ logged[k].success
        /\ WaitOver =>
              \/ \E i \in polls : mcp_calls[i].raised \/ CompletionReported(i)
              \/ Cardinality(polls) = max_wait
        /\ mcp_pc # "start" /\ knowledge_graph_created => mcp_exception = ""

\* C30: _wait_for_cognify_completion always terminates: it makes at most
\* max_wait status calls, stops at the first reply that reports completion
\* and at the first call that raises (one errors entry), logs one
\* cognify_status operation per successful poll with the attempt numbers
\* 1, 2, ... in order, and on timeout returns without raising.
C30_WaitLoopTerminates ==
    /\ []WaitLoopBounded
    /\ (mcp_pc = "wait") ~> (mcp_pc = "search")

\* The loop timed out after max_wait replies without completion and the
\* run returned.
C30_Witness ==
    /\ McpReturned
    /\ Cardinality(CallsOf("cognify_status")) = max_wait
    /\ \A i \in CallsOf("cognify_status") :
          ~mcp_calls[i].raised /\ ~CompletionReported(i)
    /\ mcp_results.errors = <<>>

====
